---------------------------- MODULE Spec2Model ----------------------------
(***************************************************************************)
(* A model of the admin pipeline of claude-code-templates:                 *)
(*   - the create-component handler (Persist / Artifact Writer),           *)
(*   - the scrape-url handler (Fetch, Extract, Normalize, Classify),       *)
(*   - analyzeScrapedContent (the Classifier),                             *)
(*   - the generate-component, regenerate-catalog and categories handlers. *)
(* Strings the code inspects character by character (names, categories,    *)
(* types, path segments) are sequences of one-character strings.  A path   *)
(* is a sequence of segments relative to COMPONENTS_DIR; a leading ".."    *)
(* segment is a location above COMPONENTS_DIR.                             *)
(***************************************************************************)
EXTENDS Integers, Sequences, FiniteSets, TLC

VARIABLES
    slug,     \* the sanitizer applied to one input, then to its own output
    files,    \* catalog tree: path -> content of every regular file
    dirs,     \* catalog tree: the set of directories
    req,      \* per worker: the create-component request it is handling
    served,   \* number of create-component requests accepted so far
    first201, \* path -> content written by the first request answered 201
    sc,       \* the scrape-url request being handled
    scServed, \* number of scrape-url requests accepted so far
    gen,      \* the generate-component request being handled
    regen,    \* the regenerate-catalog request being handled
    cat,      \* the categories request being handled
    apiServed \* number of generate, regenerate and categories requests accepted so far

vars == <<slug, files, dirs, req, served, first201, sc, scServed, gen, regen, cat, apiServed>>

persistVars == <<files, dirs, req, served, first201>>
scrapeVars == <<sc, scServed>>
apiVars == <<gen, regen, cat, apiServed>>

----------------------------------------------------------------------------
(* Bounds of the model *)

MaxLen == 5
MaxRequests == 2
MaxRaceRequests == 2
MaxScrapes == 2
MaxApiRequests == 2
MaxTemplateRequests == 1
MaxEdgeRequests == 1
MaxLoopRequests == 3
MaxCatalogRequests == 5

----------------------------------------------------------------------------
(* Characters and strings *)

LowerLetters ==
    {"a","b","c","d","e","f","g","h","i","j","k","l","m",
     "n","o","p","q","r","s","t","u","v","w","x","y","z"}

Digits == {"0","1","2","3","4","5","6","7","8","9"}

\* JavaScript's \s and the characters String.prototype.trim removes
Whitespace == {" ", "\t", "\n"}

\* the upper-case letters that occur in the inputs of the model
UpperToLower ==
    [c \in {"A","B","D","M","T"} |->
        CASE c = "A" -> "a" [] c = "B" -> "b" [] c = "D" -> "d"
          [] c = "M" -> "m" [] c = "T" -> "t"]

\* String.prototype.toLowerCase
ToLowerCase(s) ==
    [i \in 1..Len(s) |-> IF s[i] \in DOMAIN UpperToLower THEN UpperToLower[s[i]] ELSE s[i]]

RECURSIVE TrimStart(_)
TrimStart(s) ==
    IF s # <<>> /\ Head(s) \in Whitespace THEN TrimStart(Tail(s)) ELSE s

RECURSIVE TrimEnd(_)
TrimEnd(s) ==
    IF s # <<>> /\ s[Len(s)] \in Whitespace THEN TrimEnd(SubSeq(s, 1, Len(s) - 1)) ELSE s

\* String.prototype.trim
Trim(s) == TrimEnd(TrimStart(s))

\* a plausible slip: the regular expression without its g flag replaces the first run only
RECURSIVE ReplaceFirstWhitespaceRun(_)
ReplaceFirstWhitespaceRun(s) ==
    IF s = <<>> THEN <<>>
    ELSE IF Head(s) \in Whitespace
         THEN <<"-">> \o TrimStart(s)
         ELSE <<Head(s)>> \o ReplaceFirstWhitespaceRun(Tail(s))

\* .replace(/\s+/g, '-'): every maximal run of whitespace becomes one hyphen
RECURSIVE ReplaceWhitespaceRuns(_)
ReplaceWhitespaceRuns(s) ==
    IF s = <<>> THEN <<>>
    ELSE IF Head(s) \in Whitespace
         THEN <<"-">> \o ReplaceWhitespaceRuns(TrimStart(s))
         ELSE <<Head(s)>> \o ReplaceWhitespaceRuns(Tail(s))

SlugChars == LowerLetters \cup Digits \cup {"-"}

\* .replace(/[^a-z0-9-]/g, '')
StripNonSlug(s) == SelectSeq(s, LAMBDA c : c \in SlugChars)

\* sanitizedName
SanitizeName(name) == StripNonSlug(ReplaceWhitespaceRuns(ToLowerCase(Trim(name))))

\* sanitizedCategory
SanitizeCategory(category) == ReplaceWhitespaceRuns(ToLowerCase(Trim(category)))

IsSlug(s) == \A i \in 1..Len(s) : s[i] \in SlugChars

----------------------------------------------------------------------------
(* The sanitizers as pure functions: every input up to MaxLen characters *)

SlugAlphabet == {"a", "B", "7", "-", " ", "!"}

RECURSIVE StringsUpTo(_)
StringsUpTo(n) ==
    IF n = 0 THEN {<<>>}
    ELSE LET shorter == StringsUpTo(n - 1)
         IN  shorter \cup {Append(s, c) : s \in {t \in shorter : Len(t) = n - 1}, c \in SlugAlphabet}

Sanitizers == {"name", "category"}

Sanitize(which, s) == IF which = "name" THEN SanitizeName(s) ELSE SanitizeCategory(s)

SlugIdle == [pc |-> "idle", which |-> "name", input |-> <<>>, once |-> <<>>, twice |-> <<>>]

SlugInit ==
    \E which \in Sanitizers, x \in StringsUpTo(MaxLen) :
        slug = [pc |-> "input", which |-> which, input |-> x, once |-> <<>>, twice |-> <<>>]

\* the sanitizer applied to the request's field
ApplySanitizer ==
    /\ slug.pc = "input"
    /\ slug' = [slug EXCEPT !.pc = "once", !.once = Sanitize(slug.which, slug.input)]
    /\ UNCHANGED <<persistVars, scrapeVars, apiVars>>

\* the sanitizer applied to what it returned (the value resubmitted as a field)
ReapplySanitizer ==
    /\ slug.pc = "once"
    /\ slug' = [slug EXCEPT !.pc = "twice", !.twice = Sanitize(slug.which, slug.once)]
    /\ UNCHANGED <<persistVars, scrapeVars, apiVars>>

----------------------------------------------------------------------------
(* Paths: path.join and the three filesystem calls of the handler *)

RECURSIVE SplitInto(_, _, _)
SplitInto(done, cur, rest) ==
    IF rest = <<>> THEN Append(done, cur)
    ELSE IF Head(rest) = "/"
         THEN SplitInto(Append(done, cur), <<>>, Tail(rest))
         ELSE SplitInto(done, Append(cur, Head(rest)), Tail(rest))

\* the segments of a string between its '/' characters
Split(s) == SplitInto(<<>>, <<>>, s)

DotDot == <<".", ".">>

RECURSIVE NormalizeInto(_, _)
NormalizeInto(acc, rest) ==
    IF rest = <<>> THEN acc
    ELSE LET seg == Head(rest)
         IN  IF seg = <<>> \/ seg = <<".">>
             THEN NormalizeInto(acc, Tail(rest))
             ELSE IF seg = DotDot /\ acc # <<>> /\ acc[Len(acc)] # DotDot
                  THEN NormalizeInto(SubSeq(acc, 1, Len(acc) - 1), Tail(rest))
                  ELSE NormalizeInto(Append(acc, seg), Tail(rest))

\* path.normalize on a path relative to COMPONENTS_DIR
Normalize(segs) == NormalizeInto(<<>>, segs)

RECURSIVE SplitAll(_)
SplitAll(parts) ==
    IF parts = <<>> THEN <<>> ELSE Split(Head(parts)) \o SplitAll(Tail(parts))

\* path.join(COMPONENTS_DIR, ...parts), relative to COMPONENTS_DIR
PathJoin(parts) == Normalize(SplitAll(parts))

\* a location at or above COMPONENTS_DIR: these directories exist
IsAncestor(p) == \A i \in 1..Len(p) : p[i] = DotDot

Prefixes(p) == {SubSeq(p, 1, n) : n \in 0..Len(p)}

Dirname(p) == SubSeq(p, 1, Len(p) - 1)

IsDirectory(p) == p \in dirs \/ IsAncestor(p)

\* a plausible slip: the existence check looking for a directory only
ExistsSyncDirectoryOnly(p) == IsDirectory(p)

\* fs.existsSync
ExistsSync(p) == p \in DOMAIN files \/ IsDirectory(p)

\* fs.mkdirSync(dir, { recursive: true }) throws when a component of dir is a file
MkdirThrows(dir) == \E q \in Prefixes(dir) : q \in DOMAIN files

MkdirResult(dir) == dirs \cup {q \in Prefixes(dir) : ~IsAncestor(q)}

\* a plausible slip: create-exclusive (flag 'wx'), which fails on an existing file
WriteThrowsExclusive(p) ==
    \/ ~IsDirectory(Dirname(p))
    \/ IsDirectory(p)
    \/ p \in DOMAIN files

\* fs.writeFileSync(p, data) throws when the parent is no directory or p is one
WriteThrows(p) ==
    \/ ~IsDirectory(Dirname(p))
    \/ IsDirectory(p)

WriteResult(f, p, data) == [q \in DOMAIN f \cup {p} |-> IF q = p THEN data ELSE f[q]]

----------------------------------------------------------------------------
(* Component types, templates and extensions *)

TAgents == <<"a","g","e","n","t","s">>
TCommands == <<"c","o","m","m","a","n","d","s">>
TMcps == <<"m","c","p","s">>
TSettings == <<"s","e","t","t","i","n","g","s">>
THooks == <<"h","o","o","k","s">>
TSkills == <<"s","k","i","l","l","s">>
TPlugins == <<"p","l","u","g","i","n","s">>
TWidgets == <<"w","i","d","g","e","t","s">>
TToString == <<"t","o","S","t","r","i","n","g">>

\* Object.keys(COMPONENT_TEMPLATES)
ComponentTypes == {TAgents, TCommands, TMcps, TSettings, THooks, TSkills}

JsonTypes == {TMcps, TSettings, THooks}

\* property names every object literal inherits from Object.prototype
ObjectPrototypeKeys == {TToString}

\* COMPONENT_TEMPLATES[type] is truthy: an own key, or an inherited property
HasTemplate(type) == type \in ComponentTypes \cup ObjectPrototypeKeys

ExtMd == <<".", "m", "d">>
ExtJson == <<".", "j", "s", "o", "n">>
SkillFile == <<"S", "K", "I", "L", "L", ".", "m", "d">>

\* a plausible slip: every type given the Markdown extension
ExtensionAlwaysMd(type) ==
    IF type \in ComponentTypes THEN ExtMd
    ELSE <<"function ">> \o type \o <<"() { [native code] }">>

\* COMPONENT_EXTENSIONS[type], as the template literal `${extension}` renders it
Extension(type) ==
    IF type \in JsonTypes THEN ExtJson
    ELSE IF type \in ComponentTypes THEN ExtMd
    ELSE <<"function ">> \o type \o <<"() { [native code] }">>

JsonWhitespace == {" ", "\t", "\n", "\r"}

RECURSIVE SkipWs(_)
SkipWs(s) == IF s # <<>> /\ Head(s) \in JsonWhitespace THEN SkipWs(Tail(s)) ELSE s

StartsWith(s, prefix) == Len(s) >= Len(prefix) /\ SubSeq(s, 1, Len(prefix)) = prefix

\* the values JSON.parse returns
JNull == [t |-> "null"]
JBool(b) == [t |-> "bool", b |-> b]
JNum(digits) == [t |-> "num", n |-> digits]
JStr(s) == [t |-> "str", s |-> s]
JArr(items) == [t |-> "arr", items |-> items]
JObj(members) == [t |-> "obj", members |-> members]
Member(key, value) == [key |-> key, value |-> value]

ParseFailed == [ok |-> FALSE, value |-> JNull, rest |-> <<>>]
Parsed(value, rest) == [ok |-> TRUE, value |-> value, rest |-> rest]

\* the characters of a string literal behind its opening quote
RECURSIVE ParseChars(_, _)
ParseChars(acc, s) ==
    IF s = <<>> THEN ParseFailed
    ELSE IF Head(s) = "\"" THEN Parsed(JStr(acc), Tail(s))
    ELSE IF Head(s) = "\\"
    THEN IF Len(s) < 2 THEN ParseFailed
         ELSE IF s[2] \in {"\"", "\\", "/"}
         THEN ParseChars(Append(acc, s[2]), SubSeq(s, 3, Len(s)))
         ELSE IF s[2] = "n" THEN ParseChars(Append(acc, "\n"), SubSeq(s, 3, Len(s)))
         ELSE IF s[2] = "t" THEN ParseChars(Append(acc, "\t"), SubSeq(s, 3, Len(s)))
         ELSE IF s[2] = "r" THEN ParseChars(Append(acc, "\r"), SubSeq(s, 3, Len(s)))
         ELSE ParseFailed
    ELSE IF Head(s) \in {"\n", "\t", "\r"} THEN ParseFailed
    ELSE ParseChars(Append(acc, Head(s)), Tail(s))

RECURSIVE DigitPrefix(_)
DigitPrefix(s) ==
    IF s # <<>> /\ Head(s) \in Digits THEN <<Head(s)>> \o DigitPrefix(Tail(s)) ELSE <<>>

\* a number: the inputs of the model hold unsigned integers only
ParseNumber(s) ==
    LET digits == DigitPrefix(s)
    IN  IF digits = <<>> \/ (Len(digits) > 1 /\ Head(digits) = "0") THEN ParseFailed
        ELSE Parsed(JNum(digits), SubSeq(s, Len(digits) + 1, Len(s)))

DigitValue ==
    [c \in Digits |->
        CASE c = "0" -> 0 [] c = "1" -> 1 [] c = "2" -> 2 [] c = "3" -> 3 [] c = "4" -> 4
          [] c = "5" -> 5 [] c = "6" -> 6 [] c = "7" -> 7 [] c = "8" -> 8 [] c = "9" -> 9]

\* an own property key that is an array index: objects list these first, ascending
IsIndexKey(key) ==
    /\ key # <<>>
    /\ \A i \in 1..Len(key) : key[i] \in Digits
    /\ Len(key) > 1 => Head(key) # "0"

IndexLess(a, b) ==
    \/ Len(a) < Len(b)
    \/ /\ Len(a) = Len(b)
       /\ \E i \in 1..Len(a) :
             /\ DigitValue[a[i]] < DigitValue[b[i]]
             /\ \A j \in 1..(i - 1) : a[j] = b[j]

\* obj[key] = value on the object being built: a repeated key keeps its place
\* and takes the later value; a new index key goes among the index keys in
\* ascending order, any other new key last
SetMember(members, key, value) ==
    IF \E i \in 1..Len(members) : members[i].key = key
    THEN [i \in 1..Len(members) |->
             IF members[i].key = key THEN Member(key, value) ELSE members[i]]
    ELSE IF IsIndexKey(key)
    THEN LET before == SelectSeq(members, LAMBDA m : IsIndexKey(m.key) /\ IndexLess(m.key, key))
             after == SelectSeq(members, LAMBDA m : ~(IsIndexKey(m.key) /\ IndexLess(m.key, key)))
         IN  before \o <<Member(key, value)>> \o after
    ELSE Append(members, Member(key, value))

RECURSIVE ParseValue(_)
RECURSIVE ParseItems(_, _)
RECURSIVE ParseMembers(_, _)

ParseValue(text) ==
    LET s == SkipWs(text)
    IN  IF s = <<>> THEN ParseFailed
        ELSE IF Head(s) = "{"
        THEN LET r == SkipWs(Tail(s))
             IN  IF r # <<>> /\ Head(r) = "}" THEN Parsed(JObj(<<>>), Tail(r))
                 ELSE ParseMembers(<<>>, r)
        ELSE IF Head(s) = "["
        THEN LET r == SkipWs(Tail(s))
             IN  IF r # <<>> /\ Head(r) = "]" THEN Parsed(JArr(<<>>), Tail(r))
                 ELSE ParseItems(<<>>, r)
        ELSE IF Head(s) = "\"" THEN ParseChars(<<>>, Tail(s))
        ELSE IF Head(s) \in Digits THEN ParseNumber(s)
        ELSE IF StartsWith(s, <<"n","u","l","l">>) THEN Parsed(JNull, SubSeq(s, 5, Len(s)))
        ELSE IF StartsWith(s, <<"t","r","u","e">>) THEN Parsed(JBool(TRUE), SubSeq(s, 5, Len(s)))
        ELSE IF StartsWith(s, <<"f","a","l","s","e">>) THEN Parsed(JBool(FALSE), SubSeq(s, 6, Len(s)))
        ELSE ParseFailed

ParseItems(acc, text) ==
    LET item == ParseValue(text)
        r == SkipWs(item.rest)
    IN  IF ~item.ok \/ r = <<>> THEN ParseFailed
        ELSE IF Head(r) = "," THEN ParseItems(Append(acc, item.value), Tail(r))
        ELSE IF Head(r) = "]" THEN Parsed(JArr(Append(acc, item.value)), Tail(r))
        ELSE ParseFailed

ParseMembers(acc, text) ==
    LET s == SkipWs(text)
        key == ParseChars(<<>>, Tail(s))
        colon == SkipWs(key.rest)
        val == ParseValue(Tail(colon))
        r == SkipWs(val.rest)
    IN  IF s = <<>> \/ Head(s) # "\"" THEN ParseFailed
        ELSE IF ~key.ok \/ colon = <<>> \/ Head(colon) # ":" THEN ParseFailed
        ELSE IF ~val.ok \/ r = <<>> THEN ParseFailed
        ELSE IF Head(r) = "," THEN ParseMembers(SetMember(acc, key.value.s, val.value), Tail(r))
        ELSE IF Head(r) = "}" THEN Parsed(JObj(SetMember(acc, key.value.s, val.value)), Tail(r))
        ELSE ParseFailed

\* JSON.parse: the value of a well-formed document, or a SyntaxError thrown
JsonParse(text) ==
    LET r == ParseValue(text)
    IN  IF r.ok /\ SkipWs(r.rest) = <<>>
        THEN [threw |-> FALSE, value |-> r.value]
        ELSE [threw |-> TRUE, value |-> JNull]

RECURSIVE Flatten(_)
Flatten(seqs) == IF seqs = <<>> THEN <<>> ELSE Head(seqs) \o Flatten(Tail(seqs))

EscapeChar(c) ==
    CASE c = "\"" -> <<"\\", "\"">>
      [] c = "\\" -> <<"\\", "\\">>
      [] c = "\n" -> <<"\\", "n">>
      [] c = "\t" -> <<"\\", "t">>
      [] c = "\r" -> <<"\\", "r">>
      [] OTHER -> <<c>>

\* the string literal JSON.stringify writes for a string
Quote(s) == <<"\"">> \o Flatten([i \in 1..Len(s) |-> EscapeChar(s[i])]) \o <<"\"">>

Spaces(n) == [i \in 1..n |-> " "]

RECURSIVE JoinLines(_)
JoinLines(lines) ==
    IF Len(lines) = 1 THEN Head(lines)
    ELSE Head(lines) \o <<",", "\n">> \o JoinLines(Tail(lines))

RECURSIVE Stringify(_, _)
Stringify(v, indent) ==
    CASE v.t = "null" -> <<"n","u","l","l">>
      [] v.t = "bool" -> IF v.b THEN <<"t","r","u","e">> ELSE <<"f","a","l","s","e">>
      [] v.t = "num" -> v.n
      [] v.t = "str" -> Quote(v.s)
      [] v.t = "arr" ->
            IF v.items = <<>> THEN <<"[", "]">>
            ELSE <<"[", "\n">>
                 \o JoinLines([i \in 1..Len(v.items) |->
                        Spaces(indent + 2) \o Stringify(v.items[i], indent + 2)])
                 \o <<"\n">> \o Spaces(indent) \o <<"]">>
      [] v.t = "obj" ->
            IF v.members = <<>> THEN <<"{", "}">>
            ELSE <<"{", "\n">>
                 \o JoinLines([i \in 1..Len(v.members) |->
                        Spaces(indent + 2) \o Quote(v.members[i].key) \o <<":", " ">>
                        \o Stringify(v.members[i].value, indent + 2)])
                 \o <<"\n">> \o Spaces(indent) \o <<"}">>

\* JSON.stringify(value, null, 2)
JsonStringify2(value) == Stringify(value, 0)

\* name.replace(/-/g, '_')
HyphensToUnderscores(s) == [i \in 1..Len(s) |-> IF s[i] = "-" THEN "_" ELSE s[i]]

\* the defaultConfig object of the three JSON templates; a literal of the
\* source without a character to escape is written as one element
DefaultConfig(type, name, description) ==
    CASE type = TMcps ->
            JObj(<<Member(<<"mcpServers">>,
                JObj(<<Member(HyphensToUnderscores(name),
                    JObj(<<Member(<<"description">>, JStr(description)),
                           Member(<<"command">>, JStr(<<"npx">>)),
                           Member(<<"args">>, JArr(<<JStr(<<"-y">>), JStr(<<"@your-org/mcp-server">>)>>)),
                           Member(<<"env">>,
                               JObj(<<Member(<<"API_KEY">>, JStr(<<"<YOUR_API_KEY>">>)),
                                      Member(<<"BASE_URL">>, JStr(<<"https://api.service.com">>))>>))>>))>>))>>)
      [] type = TSettings ->
            JObj(<<Member(<<"description">>, JStr(description)),
                   Member(<<"env">>, JObj(<<Member(<<"SETTING_KEY">>, JStr(<<"default_value">>))>>))>>)
      [] type = THooks ->
            JObj(<<Member(<<"description">>, JStr(description)),
                   Member(<<"hooks">>,
                       JObj(<<Member(<<"PostToolUse">>,
                           JArr(<<JObj(<<Member(<<"matcher">>, JStr(<<"Edit|MultiEdit|Write">>)),
                                         Member(<<"hooks">>,
                                             JArr(<<JObj(<<Member(<<"type">>, JStr(<<"command">>)),
                                                           Member(<<"command">>,
                                                               JStr(<<"echo 'Hook executed'">>))>>)>>))>>)>>))>>))>>)

\* a field of the request body that is no string: a number and an object,
\* each written as one element naming it
NumberValue == <<"(number 5)">>
ObjectValue == <<"(object)">>
NonStrings == {NumberValue, ObjectValue}

\* typeof v === 'string'
IsString(v) == v \notin NonStrings

\* String(v), the conversion JSON.parse applies to its argument
ToStringValue(v) ==
    IF v = NumberValue THEN <<"5">>
    ELSE IF v = ObjectValue THEN <<"[object Object]">>
    ELSE v

FileBody(kind, type, name, description, text) ==
    [kind |-> kind, type |-> type, name |-> name, description |-> description, text |-> text]

\* a plausible slip: the JSON templates returning content || default, as the
\* Markdown templates do
TemplateContentFirst(type, name, category, description, content) ==
    IF type \in JsonTypes
    THEN IF content # <<>>
         THEN FileBody("verbatim", <<>>, <<>>, <<>>, content)
         ELSE FileBody("defaultConfig", type,
                       IF type = TMcps THEN HyphensToUnderscores(name) ELSE <<>>,
                       description, JsonStringify2(DefaultConfig(type, name, description)))
    ELSE IF type \in ComponentTypes
    THEN IF content # <<>>
         THEN FileBody("verbatim", <<>>, <<>>, <<>>, content)
         ELSE FileBody("frontmatter", type, name, description, <<>>)
    ELSE FileBody("verbatim", <<>>, <<>>, <<>>, <<"[object Undefined]">>)

\* COMPONENT_TEMPLATES[type](name, category, description, content)
Template(type, name, category, description, content) ==
    IF type \in JsonTypes
    THEN IF content # <<>> /\ ~JsonParse(ToStringValue(content)).threw
         THEN FileBody("json", <<>>, <<>>, <<>>,
                       JsonStringify2(JsonParse(ToStringValue(content)).value))
         ELSE FileBody("defaultConfig", type,
                       IF type = TMcps THEN HyphensToUnderscores(name) ELSE <<>>,
                       description, JsonStringify2(DefaultConfig(type, name, description)))
    ELSE IF type \in ComponentTypes
    THEN IF content # <<>>
         THEN FileBody("verbatim", <<>>, <<>>, <<>>, content)
         ELSE FileBody("frontmatter", type, name, description, <<>>)
    ELSE FileBody("verbatim", <<>>, <<>>, <<>>, <<"[object Undefined]">>)

----------------------------------------------------------------------------
(* What the five handlers share: CORS headers, method check, try and catch *)

Methods == {"OPTIONS", "GET", "POST"}

\* a plausible slip: no branch for the preflight request
MethodCheckWithoutOptions(method, allowed) ==
    IF method # allowed THEN 405 ELSE 0

\* if (req.method === 'OPTIONS') return 200; if (req.method !== allowed) return 405;
\* 0 when the handler goes on to its try block
MethodCheck(method, allowed) ==
    IF method = "OPTIONS" THEN 200
    ELSE IF method # allowed THEN 405
    ELSE 0

\* the lines of each handler's try block, the catch line excluded
TryBlock ==
    [create |-> <<252, 326>>, scrape |-> <<19, 363>>, generate |-> <<419, 586>>,
     regenerate |-> <<22, 52>>, categories |-> <<291, 345>>]

\* a plausible slip: the request input read before the try block is entered
GuardedBelowFirstLine(handler, line) ==
    TryBlock[handler][1] + 1 < line /\ line <= TryBlock[handler][2]

\* an exception raised at this line of the handler reaches the handler's catch
Guarded(handler, line) ==
    TryBlock[handler][1] <= line /\ line <= TryBlock[handler][2]

\* the transport-level fields of a request being handled
NoExchange ==
    [method |-> "none", allowOrigin |-> "none", bodyRead |-> FALSE,
     responses |-> 0, escaped |-> FALSE]

\* res.setHeader('Access-Control-Allow-Origin', '*')
Received(method) == [NoExchange EXCEPT !.method = method, !.allowOrigin = "*"]

\* return res.status(code).json(...)
Respond(r, code) ==
    [r EXCEPT !.pc = "done", !.status = code, !.http.responses = @ + 1]

\* an exception raised at a line of a handler: the catch block answers with
\* code, or the exception leaves the handler
Thrown(r, handler, line, code) ==
    IF Guarded(handler, line) THEN Respond(r, code)
    ELSE [r EXCEPT !.pc = "done", !.http.escaped = TRUE]

----------------------------------------------------------------------------
(* The create-component handler *)

Workers == {"w1", "w2"}

NoPath == <<>>

\* req.body: an absent field and the empty string are both <<>>
Body(type, category, name, description, content) ==
    [defined |-> TRUE, type |-> type, category |-> category, name |-> name,
     description |-> description, content |-> content]

\* req.body of a request without a JSON body
UndefinedBody == [Body(<<>>, <<>>, <<>>, <<>>, <<>>) EXCEPT !.defined = FALSE]

ReqIdle ==
    [pc |-> "idle", status |-> 0, http |-> NoExchange,
     body |-> Body(<<>>, <<>>, <<>>, <<>>, <<>>),
     category |-> <<>>, name |-> <<>>, componentDir |-> NoPath,
     filePath |-> NoPath, resolved |-> FALSE, sawAbsent |-> FALSE, after201 |-> FALSE,
     writes |-> 0]

\* the request after its body was read inside the try block
ReqRead(method, body) ==
    [ReqIdle EXCEPT !.http = [Received(method) EXCEPT !.bodyRead = TRUE], !.body = body]

\* res.status(code).json(...) for a request that resolved no destination
Rejected(method, code, body) == Respond(ReqRead(method, body), code)

\* componentDir of the request
ComponentDir(type, sanitizedCategory, sanitizedName) ==
    IF type = TSkills
    THEN PathJoin(<<type, sanitizedCategory, sanitizedName>>)
    ELSE PathJoin(<<type, sanitizedCategory>>)

\* filePath of the request
FilePath(type, sanitizedCategory, sanitizedName) ==
    IF type = TSkills
    THEN PathJoin(<<type, sanitizedCategory, sanitizedName, SkillFile>>)
    ELSE PathJoin(<<type, sanitizedCategory, sanitizedName \o Extension(type)>>)

\* the request body is read, validated and sanitized, and the destination built
CreateStart(w, method, body, max) ==
    /\ req[w].pc \in {"idle", "done"}
    /\ served < max
    /\ served' = served + 1
    /\ req' = [req EXCEPT ![w] =
          IF MethodCheck(method, "POST") # 0
          THEN Respond([ReqIdle EXCEPT !.http = Received(method)], MethodCheck(method, "POST"))
          ELSE IF ~body.defined
          THEN Thrown([ReqIdle EXCEPT !.http = Received(method)], "create", 253, 500)
          ELSE IF body.type = <<>> \/ body.category = <<>> \/ body.name = <<>> \/ body.description = <<>>
          THEN Rejected(method, 400, body)
          ELSE IF body.type = TPlugins
          THEN Rejected(method, 400, body)
          ELSE IF ~HasTemplate(body.type)
          THEN Rejected(method, 400, body)
          ELSE IF ~IsString(body.name)
          THEN Thrown(ReqRead(method, body), "create", 279, 500)
          ELSE IF ~IsString(body.category)
          THEN Thrown(ReqRead(method, body), "create", 280, 500)
          ELSE LET sanitizedName == SanitizeName(body.name)
                   sanitizedCategory == SanitizeCategory(body.category)
               IN  [ReqRead(method, body) EXCEPT
                      !.pc = "check",
                      !.category = sanitizedCategory, !.name = sanitizedName,
                      !.componentDir = ComponentDir(body.type, sanitizedCategory, sanitizedName),
                      !.filePath = FilePath(body.type, sanitizedCategory, sanitizedName),
                      !.resolved = TRUE,
                      !.after201 = FilePath(body.type, sanitizedCategory, sanitizedName)
                                       \in DOMAIN first201]]
    /\ UNCHANGED <<files, dirs, first201, slug, scrapeVars, apiVars>>

\* if (fs.existsSync(filePath)) return 409
CheckExists(w) ==
    /\ req[w].pc = "check"
    /\ req' = [req EXCEPT ![w] =
          IF ExistsSync(req[w].filePath)
          THEN Respond(@, 409)
          ELSE [@ EXCEPT !.pc = "mkdir", !.sawAbsent = TRUE]]
    /\ UNCHANGED <<files, dirs, served, first201, slug, scrapeVars, apiVars>>

\* if (!fs.existsSync(componentDir)) fs.mkdirSync(componentDir, { recursive: true })
EnsureDir(w) ==
    /\ req[w].pc = "mkdir"
    /\ IF ExistsSync(req[w].componentDir)
       THEN /\ req' = [req EXCEPT ![w].pc = "write"]
            /\ UNCHANGED dirs
       ELSE IF MkdirThrows(req[w].componentDir)
       THEN /\ req' = [req EXCEPT ![w] = Thrown(@, "create", 305, 500)]
            /\ UNCHANGED dirs
       ELSE /\ req' = [req EXCEPT ![w].pc = "write", ![w].writes = @ + 1]
            /\ dirs' = MkdirResult(req[w].componentDir)
    /\ UNCHANGED <<files, served, first201, slug, scrapeVars, apiVars>>

\* the template is rendered (description.trim() throws on a value that is no
\* string), and fs.writeFileSync(filePath, fileContent), which throws on data
\* that is no string, answers 201
WriteFile(w) ==
    /\ req[w].pc = "write"
    /\ IF ~IsString(req[w].body.description)
       THEN /\ req' = [req EXCEPT ![w] = Thrown(@, "create", 310, 500)]
            /\ UNCHANGED <<files, first201>>
       ELSE IF \/ ~IsString(Template(req[w].body.type, req[w].name, req[w].category,
                                     Trim(req[w].body.description), req[w].body.content).text)
               \/ WriteThrows(req[w].filePath)
       THEN /\ req' = [req EXCEPT ![w] = Thrown(@, "create", 313, 500)]
            /\ UNCHANGED <<files, first201>>
       ELSE LET fileContent == Template(req[w].body.type, req[w].name, req[w].category,
                                        Trim(req[w].body.description), req[w].body.content)
            IN  /\ files' = WriteResult(files, req[w].filePath, fileContent)
                /\ first201' = IF req[w].filePath \in DOMAIN first201
                               THEN first201
                               ELSE WriteResult(first201, req[w].filePath, fileContent)
                /\ req' = [req EXCEPT ![w] = Respond([@ EXCEPT !.writes = @ + 1], 201)]
    /\ UNCHANGED <<dirs, served, slug, scrapeVars, apiVars>>

\* a plausible slip: the existence check awaited (fs.promises.access), the
\* handler resuming at the directory creation
CreateAwaitsAfterCheck == {"mkdir"}

\* the positions at which the handler resumes after an await: its filesystem
\* calls are the ...Sync ones and it has no await
CreateAwaits == {}

\* the handler of w is inside synchronous code
Running(w) == req[w].pc \notin ({"idle", "done"} \cup CreateAwaits)

\* the event loop runs a callback of w: no other handler is inside synchronous code
Scheduled(w) == \A v \in Workers \ {w} : ~Running(v)

----------------------------------------------------------------------------
(* The Classifier: analyzeScrapedContent *)

\* what the provider does with the one messages.create call
ProviderOutcomes == {"json", "fencedJson", "prose", "apiError", "unreachable"}

NoAnalysis == [kind |-> "none", confidence |-> "absent", dataQuality |-> "absent", error |-> "none"]

\* the fallback object of the catch block
FallbackAnalysis(message) ==
    [kind |-> "fallback", confidence |-> "0", dataQuality |-> "low", error |-> message]

\* JSON.parse of the reply, after one fenced-code wrapper is removed
ParsedAnalysis(quality) ==
    [kind |-> "analysis", confidence |-> "model", dataQuality |-> quality, error |-> "none"]

\* analyzeScrapedContent(scrapedData): what it returns, or that it threw
AnalyzeScrapedContent(apiKey, outcome, quality) ==
    IF ~apiKey
    THEN [threw |-> TRUE, message |-> "ANTHROPIC_API_KEY not configured", modelCalls |-> 0,
          value |-> NoAnalysis]
    ELSE IF outcome \in {"apiError", "unreachable", "prose"}
    THEN [threw |-> FALSE, message |-> "none", modelCalls |-> 1, value |-> FallbackAnalysis(outcome)]
    ELSE [threw |-> FALSE, message |-> "none", modelCalls |-> 1, value |-> ParsedAnalysis(quality)]

----------------------------------------------------------------------------
(* The scrape-url handler *)

HostGithub == <<"g","i","t","h","u","b",".","c","o","m">>
HostRaw == <<"r","a","w",".","g","i","t","h","u","b","u","s","e","r","c","o","n","t","e","n","t",".","c","o","m">>
HostExample == <<"e","x","a","m","p","l","e",".","c","o","m">>
HostLookalike == <<"m","y","g","i","t","h","u","b",".","c","o","m">>
HostClaude == <<"c","l","a","u","d","e",".","c","o","m">>
HostDocs == <<"c","o","d","e",".">> \o HostClaude

RECURSIVE Includes(_, _)
\* String.prototype.includes
Includes(s, needle) ==
    IF Len(s) < Len(needle) THEN FALSE
    ELSE IF SubSeq(s, 1, Len(needle)) = needle THEN TRUE
    ELSE Includes(Tail(s), needle)

NoUrl == [given |-> FALSE, wellFormed |-> FALSE, hostname |-> <<>>, pathname |-> <<>>]
MalformedUrl == [given |-> TRUE, wellFormed |-> FALSE, hostname |-> <<>>, pathname |-> <<>>]
Url(hostname, pathname) ==
    [given |-> TRUE, wellFormed |-> TRUE, hostname |-> hostname, pathname |-> pathname]

\* the url field of the request: its host, and its path as the segments between '/'
UrlInputs ==
    {NoUrl, MalformedUrl,
     Url(HostExample, <<"docs">>),
     Url(HostLookalike, <<"o", "r">>),
     Url(HostDocs, <<"docs">>),
     Url(HostGithub, <<"o", "r">>),
     Url(HostGithub, <<"o", "r", "blob", "main", "README.md">>),
     Url(HostGithub, <<"o", "r", "tree", "main", "src">>),
     Url(HostRaw, <<"o", "r", "main", "README.md">>)}

\* maxContentLength of the primary axios.get
MaxContentLength == 10485760
\* the content length under which the raw URL is fetched
RawFallbackBelow == 500

\* validateStatus: (status) => status < 500
ValidateStatus(status) == status < 500

NoError == [response |-> 0, code |-> "none", message |-> "none"]

None == <<>>
Some(x) == <<x>>

\* .slice(0, 20) of the anchors of the content root
MaxLinks == 20
\* .slice(0, 50) of the file and folder anchors of a repository page
RepoStructureCap == 50

TText == <<"t","e","x","t">>
TBat == <<"B","A","T">>

\* a <code> element: the group of /language-(\w+)/ in its class (empty when
\* there is no match), its data-lang attribute, the group in the class of
\* the enclosing <pre>, and its text
CodeElement(classLang, langAttr, preLang, text) ==
    [classLang |-> classLang, langAttr |-> langAttr, preLang |-> preLang, text |-> text]

NoCode == <<>>

SampleCode ==
    <<CodeElement(TBat, <<>>, <<>>, <<" ", "a", " ">>),
      CodeElement(<<>>, <<>>, <<>>, <<" ", " ">>),
      CodeElement(<<>>, <<"M","D">>, <<>>, <<"b">>),
      CodeElement(<<>>, <<>>, <<>>, <<>>),
      CodeElement(<<>>, <<>>, <<>>, <<"a", " ", "b">>)>>

MarkdownCode ==
    <<CodeElement(<<>>, <<>>, TBat, <<"a">>),
      CodeElement(TBat, <<>>, <<>>, <<" ">>)>>

\* the href of an anchor of a repository page, as its segments between '/'
HrefFile == <<"o", "r", "blob", "main", "README.md">>
HrefDirectory == <<"o", "r", "tree", "main", "src">>
HrefBranch == <<"o", "r", "tree", "main">>
HrefNested == <<"o", "r", "tree", "main", "blob", "x">>

\* the anchors a[href*="/blob/"], a[href*="/tree/"] of a GitHub page, in document order
RepoAnchors(n) ==
    [i \in 1..n |-> IF i % 25 = 0 THEN HrefBranch
                    ELSE IF i % 3 = 0 THEN HrefDirectory
                    ELSE IF i % 7 = 0 THEN HrefNested
                    ELSE HrefFile]

\* what JSDOM finds in the fetched document: the number of h1-h6 and of
\* a[href] under the content root, the file and folder anchors of the
\* document, the <code> elements of the content root and of .markdown-body
Page(headings, links, fileLinks, codeBlocks, mdCodeBlocks) ==
    [headings |-> headings, links |-> links, fileLinks |-> fileLinks,
     codeBlocks |-> codeBlocks, mdCodeBlocks |-> mdCodeBlocks]

PlainPage == Page(0, 0, <<>>, NoCode, NoCode)
DocPage == Page(2, MaxLinks + 5, <<>>, SampleCode, MarkdownCode)
RepoPage == Page(1, 3, RepoAnchors(RepoStructureCap + 5), NoCode, NoCode)

Pages == {PlainPage, DocPage, RepoPage}

\* what the network and the upstream server do with the primary GET
Upstream(kind, status, bytes, isString, doctype, mainLen, mdLen, page) ==
    [kind |-> kind, status |-> status, bytes |-> bytes, isString |-> isString,
     doctype |-> doctype, mainLen |-> mainLen, mdLen |-> mdLen, page |-> page]

NoUpstream == Upstream("none", 0, 0, FALSE, FALSE, 0, -1, PlainPage)

NetworkFailures ==
    {"ENOTFOUND", "ECONNREFUSED", "ETIMEDOUT", "timeout", "redirects", "EPIPE"}

ContentLengths == {12, RawFallbackBelow - 1, RawFallbackBelow}

UpstreamOutcomes ==
    {Upstream(k, 0, 0, FALSE, FALSE, 0, -1, PlainPage) : k \in NetworkFailures}
    \cup {Upstream("http", st, 2048, TRUE, TRUE, 12, -1, PlainPage) : st \in {403, 404, 429, 500, 503}}
    \cup {Upstream("http", 200, b, TRUE, TRUE, 12, -1, PlainPage) :
            b \in {MaxContentLength, MaxContentLength + 1}}
    \cup {Upstream("http", 200, 2048, TRUE, TRUE, n, m, PlainPage) :
            n \in ContentLengths, m \in {-1, 12, 600}}
    \cup {Upstream("http", 200, 2048, TRUE, TRUE, 12, m, pg) : m \in {-1, 600}, pg \in Pages}
    \cup {Upstream("http", 200, 2048, str, FALSE, n, -1, PlainPage) :
            str \in BOOLEAN, n \in ContentLengths}
    \cup {Upstream("http", 200, 0, TRUE, FALSE, 0, -1, PlainPage)}

\* the error axios.get rejects with, NoError when it resolves
AxiosError(up, maxContentLength) ==
    CASE up.kind = "ENOTFOUND" -> [response |-> 0, code |-> "ENOTFOUND", message |-> "getaddrinfo ENOTFOUND"]
      [] up.kind = "ECONNREFUSED" -> [response |-> 0, code |-> "ECONNREFUSED", message |-> "connect ECONNREFUSED"]
      [] up.kind = "ETIMEDOUT" -> [response |-> 0, code |-> "ETIMEDOUT", message |-> "connect ETIMEDOUT"]
      [] up.kind = "timeout" -> [response |-> 0, code |-> "ECONNABORTED", message |-> "timeout exceeded"]
      [] up.kind = "redirects" ->
            [response |-> 0, code |-> "ERR_FR_TOO_MANY_REDIRECTS", message |-> "Maximum number of redirects exceeded"]
      [] up.kind = "EPIPE" -> [response |-> 0, code |-> "EPIPE", message |-> "write EPIPE"]
      [] up.kind = "http" /\ up.bytes > maxContentLength ->
            [response |-> 0, code |-> "ERR_BAD_RESPONSE", message |-> "maxContentLength size exceeded"]
      [] up.kind = "http" /\ ~ValidateStatus(up.status) ->
            [response |-> up.status, code |-> "ERR_BAD_RESPONSE", message |-> "Request failed with status code"]
      [] OTHER -> NoError

\* a plausible slip: only ETIMEDOUT recognised as a timeout
ErrorStatusWithoutAborted(error) ==
    IF error.response # 0
    THEN IF error.response < 500 THEN error.response ELSE 500
    ELSE IF error.code = "ENOTFOUND" THEN 400
    ELSE IF error.code = "ECONNREFUSED" THEN 400
    ELSE IF error.code = "ETIMEDOUT" THEN 408
    ELSE IF error.code = "ERR_FR_TOO_MANY_REDIRECTS" THEN 400
    ELSE IF error.message = "maxContentLength size exceeded" THEN 413
    ELSE 500

\* the status the outer catch block answers with
ErrorStatus(error) ==
    IF error.response # 0
    THEN IF error.response < 500 THEN error.response ELSE 500
    ELSE IF error.code = "ENOTFOUND" THEN 400
    ELSE IF error.code = "ECONNREFUSED" THEN 400
    ELSE IF error.code = "ETIMEDOUT" \/ error.code = "ECONNABORTED" THEN 408
    ELSE IF error.code = "ERR_FR_TOO_MANY_REDIRECTS" THEN 400
    ELSE IF error.message = "maxContentLength size exceeded" THEN 413
    ELSE 500

IsGithubHost(hostname) ==
    Includes(hostname, HostGithub) \/ Includes(hostname, HostRaw)

IsRawHost(hostname) == Includes(hostname, HostRaw)

\* hostname.includes('code.claude.com') || hostname.includes('claude.com')
IsDocsHost(hostname) == Includes(hostname, HostDocs) \/ Includes(hostname, HostClaude)

\* pathname.match(/\/([^\/]+)\/([^\/]+)\/([^\/]+)\/(.+)/)
RawMatch(pathname) == Len(pathname) >= 4

\* the least index from `first` on of a segment in segs that has at least
\* `after` segments behind it, 0 when there is none: where a regular
\* expression with a literal segment matches leftmost
LeftmostAt(path, segs, first, after) ==
    LET found == {i \in first..(Len(path) - after) : path[i] \in segs}
    IN  IF found = {} THEN 0 ELSE CHOOSE i \in found : \A j \in found : i <= j

\* pathname.match(/\/[^\/]+\/[^\/]+\/blob\/[^\/]+\/(.+)/)
BlobAt(pathname) == LeftmostAt(pathname, {"blob"}, 3, 2)

BlobMatch(pathname) == BlobAt(pathname) # 0

\* pathname.match(/\/blob\/([^\/]+)/)
BranchAt(pathname) == LeftmostAt(pathname, {"blob"}, 1, 1)

\* pathname.includes('/blob/'), pathname.includes('/tree/')
HasSegment(pathname, seg) == \E i \in 1..(Len(pathname) - 1) : pathname[i] = seg

\* fileName.split('.').pop() on the file names of the modelled URLs
SplitDotPop(fileName) ==
    CASE fileName = "README.md" -> "md"
      [] fileName = "SKILL.md" -> "md"
      [] OTHER -> fileName

\* Array.prototype.slice(0, n)
SliceTo(seq, n) == SubSeq(seq, 1, IF Len(seq) < n THEN Len(seq) ELSE n)

\* a || b || c || 'text' on strings, the empty string being falsy
FirstTruthy(candidates) ==
    LET truthy == SelectSeq(candidates, LAMBDA c : c # <<>>)
    IN  IF truthy = <<>> THEN TText ELSE Head(truthy)

CodeBlock(language, content) == [language |-> language, content |-> content]

\* a plausible slip: the blocks mapped without the filter on their trimmed text
GenericCodeBlocksUnfiltered(elements) ==
    [i \in 1..Len(elements) |->
        CodeBlock(ToLowerCase(FirstTruthy(<<elements[i].classLang, elements[i].langAttr,
                                            elements[i].preLang>>)),
                  Trim(elements[i].text))]

\* the code blocks of the content root: empty ones filtered out, then mapped
GenericCodeBlocks(elements) ==
    LET kept == SelectSeq(elements, LAMBDA code : Len(Trim(code.text)) > 0)
    IN  [i \in 1..Len(kept) |->
            CodeBlock(ToLowerCase(FirstTruthy(<<kept[i].classLang, kept[i].langAttr,
                                                kept[i].preLang>>)),
                      Trim(kept[i].text))]

\* the code blocks of .markdown-body: mapped, then empty ones filtered out
MarkdownCodeBlocks(elements) ==
    LET mapped == [i \in 1..Len(elements) |->
                      CodeBlock(ToLowerCase(FirstTruthy(<<elements[i].classLang,
                                                          elements[i].langAttr,
                                                          elements[i].preLang>>)),
                                Trim(elements[i].text))]
    IN  SelectSeq(mapped, LAMBDA cb : Len(cb.content) > 0)

\* href.match(/\/(blob|tree)\/[^\/]+\/(.+)/): the path behind the ref, '' without a match
PathAfterRef(href) ==
    LET i == LeftmostAt(href, {"blob", "tree"}, 1, 2)
    IN  IF i = 0 THEN <<>> ELSE SubSeq(href, i + 2, Len(href))

RepoEntry(href) ==
    [path |-> PathAfterRef(href),
     type |-> IF HasSegment(href, "blob") THEN "file" ELSE "directory",
     href |-> href]

\* a plausible slip: the anchors mapped without the cap
RepoStructureUncapped(fileLinks) ==
    SelectSeq([i \in 1..Len(fileLinks) |-> RepoEntry(fileLinks[i])],
                LAMBDA item : item.path # <<>>)

\* Array.from(fileLinks).slice(0, 50).map(...).filter(item => item.path)
RepoStructure(fileLinks) ==
    LET capped == SliceTo(fileLinks, RepoStructureCap)
    IN  SelectSeq([i \in 1..Len(capped) |-> RepoEntry(capped[i])],
                    LAMBDA item : item.path # <<>>)

NoContent == [from |-> "none", length |-> 0]

\* metadata: absent properties are None, flags only ever set to true are FALSE when absent
NoMetadata ==
    [source |-> "none", repository |-> None, branch |-> None, filePath |-> None,
     fileExtension |-> None, isRaw |-> FALSE, rawContent |-> FALSE, rawUrl |-> None,
     isRepoRoot |-> FALSE, repoStructure |-> None, rawContentFetched |-> FALSE,
     headings |-> None, links |-> None]

\* metadata.headings and metadata.links as the Extractor assigns them
StructuredMetadata(metadata, page) ==
    [metadata EXCEPT
        !.headings = IF page.headings > 0 THEN Some(page.headings) ELSE @,
        !.links = IF page.links > 0
                  THEN Some(IF page.links < MaxLinks THEN page.links ELSE MaxLinks)
                  ELSE @]

\* extractedContent.metadata = { url, domain, contentType, scrapedAt }: a new
\* object, whatever the Extractor had put in the old one
InitializedMetadata(metadata) == NoMetadata

\* response.data && typeof response.data === 'string' && !response.data.includes('<!DOCTYPE')
IsRawText(up) == up.bytes > 0 /\ up.isString /\ ~up.doctype

\* the branch of the Source Normalizer for raw.githubusercontent.com, rawMatch found
RawMetadata(metadata, pathname, up) ==
    [metadata EXCEPT
        !.repository = Some([owner |-> pathname[1], name |-> pathname[2]]),
        !.branch = Some(pathname[3]),
        !.filePath = Some(SubSeq(pathname, 4, Len(pathname))),
        !.fileExtension = Some(SplitDotPop(pathname[Len(pathname)])),
        !.isRaw = TRUE,
        !.rawContent = IsRawText(up)]

\* the branch of the Source Normalizer for github.com
RepoMetadata(metadata, pathname, page) ==
    LET repository == IF Len(pathname) >= 2
                      THEN Some([owner |-> pathname[1], name |-> pathname[2]])
                      ELSE None
        blob == BlobAt(pathname)
        filePath == SubSeq(pathname, blob + 2, Len(pathname))
        branchAt == BranchAt(pathname)
        isRepoRoot == ~HasSegment(pathname, "blob") /\ ~HasSegment(pathname, "tree")
    IN  [metadata EXCEPT
            !.repository = repository,
            !.filePath = IF blob # 0 THEN Some(filePath) ELSE @,
            !.fileExtension = IF blob # 0 THEN Some(SplitDotPop(pathname[Len(pathname)])) ELSE @,
            !.rawUrl = IF blob # 0
                       THEN Some([owner |-> pathname[1], name |-> pathname[2],
                                  branch |-> pathname[branchAt + 1], filePath |-> filePath])
                       ELSE @,
            !.branch = IF branchAt # 0 THEN Some(pathname[branchAt + 1]) ELSE @,
            !.isRepoRoot = isRepoRoot,
            !.repoStructure = IF isRepoRoot /\ Len(page.fileLinks) > 0
                              THEN Some(RepoStructure(page.fileLinks))
                              ELSE @]

\* extractedContent.content after the Extractor and the Source Normalizer
ExtractedContent(url, up) ==
    LET generic == [from |-> "main", length |-> up.mainLen]
    IN  IF ~IsGithubHost(url.hostname) THEN generic
        ELSE IF IsRawHost(url.hostname)
        THEN IF RawMatch(url.pathname) /\ IsRawText(up)
             THEN [from |-> "response", length |-> up.bytes]
             ELSE generic
        ELSE IF up.mdLen >= 0 /\ up.mdLen > generic.length
             THEN [from |-> "markdown", length |-> up.mdLen]
             ELSE generic

\* extractedContent.codeBlocks after the Extractor and the Source Normalizer
ExtractedCodeBlocks(url, up) ==
    LET generic == GenericCodeBlocks(up.page.codeBlocks)
        markdown == MarkdownCodeBlocks(up.page.mdCodeBlocks)
    IN  IF IsGithubHost(url.hostname) /\ ~IsRawHost(url.hostname)
           /\ up.mdLen >= 0 /\ Len(markdown) > 0
        THEN markdown
        ELSE generic

\* extractedContent.metadata after the Extractor and the Source Normalizer
ExtractedMetadata(url, up) ==
    LET initialized == InitializedMetadata(StructuredMetadata(NoMetadata, up.page))
        github == [initialized EXCEPT !.source = "github"]
        normalized ==
            IF ~IsGithubHost(url.hostname) THEN initialized
            ELSE IF IsRawHost(url.hostname)
            THEN IF RawMatch(url.pathname) THEN RawMetadata(github, url.pathname, up) ELSE github
            ELSE RepoMetadata(github, url.pathname, up.page)
    IN  IF IsDocsHost(url.hostname)
        THEN [normalized EXCEPT !.source = "claude-docs"]
        ELSE normalized

\* a plausible slip: the length compared with <= instead of <
NeedsRawFallbackInclusive(url, content, metadata) ==
    /\ IsGithubHost(url.hostname) /\ ~IsRawHost(url.hostname)
    /\ content.length <= RawFallbackBelow
    /\ metadata.rawUrl # None

\* if (extractedContent.content.length < 500 && extractedContent.metadata.rawUrl)
NeedsRawFallback(url, content, metadata) ==
    /\ IsGithubHost(url.hostname) /\ ~IsRawHost(url.hostname)
    /\ content.length < RawFallbackBelow
    /\ metadata.rawUrl # None

ScIdle ==
    [pc |-> "idle", status |-> 0, http |-> NoExchange, url |-> NoUrl, useAI |-> FALSE, apiKey |-> FALSE,
     fetches |-> 0, rawFetches |-> 0, rawOutcome |-> "none", analyses |-> 0, modelCalls |-> 0,
     upstream |-> NoUpstream,
     extractedLength |-> 0,
     error |-> NoError, content |-> NoContent, codeBlocks |-> <<>>, metadata |-> NoMetadata,
     classifier |-> "notCalled", provider |-> "notCalled", aiAnalysis |-> NoAnalysis]

\* a plausible slip: the classifier run whether or not it was asked for
AfterExtractionUnasked(r) == [r EXCEPT !.pc = "classify"]

\* return res.status(200).json({ success: true, data: extractedContent }), or the next await
AfterExtraction(r) ==
    IF r.useAI THEN [r EXCEPT !.pc = "classify"] ELSE Respond(r, 200)

\* the body is read and the url validated; the primary GET is issued
ScrapeStart(method, defined, url, useAI, apiKey) ==
    /\ sc.pc \in {"idle", "done"}
    /\ scServed < MaxScrapes
    /\ scServed' = scServed + 1
    /\ sc' = LET received == [ScIdle EXCEPT !.http = Received(method)]
                 read == [received EXCEPT !.http.bodyRead = TRUE, !.url = url,
                                          !.useAI = useAI, !.apiKey = apiKey]
             IN  IF MethodCheck(method, "POST") # 0
                 THEN Respond(received, MethodCheck(method, "POST"))
                 ELSE IF ~defined
                 THEN Thrown(received, "scrape", 20, 500)
                 ELSE IF ~url.given \/ ~url.wellFormed
                 THEN Respond(read, 400)
                 ELSE [read EXCEPT !.pc = "fetch"]
    /\ UNCHANGED <<slug, persistVars, apiVars>>

\* await axios.get(url, ...) settles; on success the Extractor and the Source Normalizer run
PrimaryFetch(up) ==
    /\ sc.pc = "fetch"
    /\ LET error == AxiosError(up, MaxContentLength)
           fetched == [sc EXCEPT !.fetches = @ + 1, !.upstream = up, !.error = error]
       IN  sc' = IF error # NoError
                 THEN Thrown(fetched, "scrape", 37, ErrorStatus(error))
                 ELSE LET content == ExtractedContent(sc.url, up)
                          metadata == ExtractedMetadata(sc.url, up)
                          extracted == [fetched EXCEPT !.content = content, !.metadata = metadata,
                                                       !.codeBlocks = ExtractedCodeBlocks(sc.url, up),
                                                       !.extractedLength = content.length]
                      IN  IF NeedsRawFallback(sc.url, content, metadata)
                          THEN [extracted EXCEPT !.pc = "raw"]
                          ELSE AfterExtraction(extracted)
    /\ UNCHANGED <<scServed, slug, persistVars, apiVars>>

\* what the GET of the raw URL yields: a body (text, the empty string, an
\* HTML page, parsed JSON), or a rejection (status outside 2xx, timeout)
RawOutcomes == {"text", "empty", "html", "notString", "404", "timeout"}

\* a plausible slip: every body of a resolved GET taken as the file
RawFallbackSettledAnyBody(r, raw) ==
    IF raw \in {"text", "empty", "html", "notString"}
    THEN [r EXCEPT !.content = [from |-> "rawUrl", length |-> IF raw = "empty" THEN 0 ELSE 600],
                   !.metadata.rawContentFetched = TRUE]
    ELSE r

\* the request after the try block of the raw GET: the body is taken when it
\* is a non-empty string without <!DOCTYPE, and the catch only logs
RawFallbackSettled(r, raw) ==
    IF raw = "text"
    THEN [r EXCEPT !.content = [from |-> "rawUrl", length |-> 600],
                   !.metadata.rawContentFetched = TRUE]
    ELSE r

\* await axios.get(rawUrl, ...) settles inside its own try block
RawFallback(raw) ==
    /\ sc.pc = "raw"
    /\ LET fetched == [sc EXCEPT !.rawFetches = @ + 1, !.rawOutcome = raw]
       IN  sc' = AfterExtraction(RawFallbackSettled(fetched, raw))
    /\ UNCHANGED <<scServed, slug, persistVars, apiVars>>

\* a plausible slip: no try block around the call of the classifier
StatusAfterClassifierUncaught(result) == IF result.threw THEN 500 ELSE 200

\* the status answered after analyzeScrapedContent settled
StatusAfterClassifier(result) == 200

\* await analyzeScrapedContent(extractedContent) settles; the response is sent
Classify(outcome, quality) ==
    /\ sc.pc = "classify"
    /\ LET result == AnalyzeScrapedContent(sc.apiKey, outcome, quality)
       IN  sc' = [Respond(sc, StatusAfterClassifier(result)) EXCEPT
                    !.analyses = @ + 1,
                    !.modelCalls = @ + result.modelCalls,
                    !.provider = IF result.modelCalls = 0 THEN "notCalled" ELSE outcome,
                    !.classifier = IF result.threw THEN "threw"
                                   ELSE IF result.value.kind = "fallback" THEN "failed"
                                   ELSE "returned",
                    !.aiAnalysis = IF result.threw
                                   THEN [kind |-> "caught", confidence |-> "absent",
                                         dataQuality |-> "absent", error |-> result.message]
                                   ELSE result.value]
    /\ UNCHANGED <<scServed, slug, persistVars, apiVars>>

----------------------------------------------------------------------------
(* The generate-component handler *)

\* const validTypes = ['agents', 'commands', 'mcps', 'settings', 'hooks', 'skills']
ValidTypes == {TAgents, TCommands, TMcps, TSettings, THooks, TSkills}

\* req.body of a generate-component request; scrapedContent is absent
\* ("none"), a string ("text") or another truthy value ("object")
GenBody(componentType, description, scrapedContent) ==
    [defined |-> TRUE, componentType |-> componentType, description |-> description,
     scrapedContent |-> scrapedContent]

UndefinedGenBody == [GenBody(<<>>, <<>>, "none") EXCEPT !.defined = FALSE]

GenIdle ==
    [pc |-> "idle", status |-> 0, http |-> NoExchange, body |-> GenBody(<<>>, <<>>, "none"),
     apiKey |-> FALSE, loaded |-> FALSE, examples |-> {}, modelCalls |-> 0,
     error |-> "none", content |-> "none"]

\* content.substring(0, 2000)
ExampleLimit == 2000
\* categories.slice(0, 3)
ExampleCategories == 3

Last(p) == p[Len(p)]

\* String.prototype.endsWith
EndsWith(s, suffix) ==
    Len(s) >= Len(suffix) /\ SubSeq(s, Len(s) - Len(suffix) + 1, Len(s)) = suffix

\* fs.readdirSync(p): the entries of the directory p, each as its path
DirEntries(p) ==
    {q \in dirs \cup DOMAIN files : Len(q) = Len(p) + 1 /\ SubSeq(q, 1, Len(p)) = p}

\* the entries of <components>/<type> that are directories
CategoryDirs(componentType) == {q \in DirEntries(<<componentType>>) : q \in dirs}

\* the entries of a category whose name ends with .md or .json
ExampleCandidates(categoryPath) ==
    {q \in DirEntries(categoryPath) : EndsWith(Last(q), ExtMd) \/ EndsWith(Last(q), ExtJson)}

\* file.replace(/\.(md|json)$/, '')
StripExtension(name) ==
    IF EndsWith(name, ExtMd) THEN SubSeq(name, 1, Len(name) - Len(ExtMd))
    ELSE IF EndsWith(name, ExtJson) THEN SubSeq(name, 1, Len(name) - Len(ExtJson))
    ELSE name

\* { category, name, content: content.substring(0, 2000) }
Example(categoryPath, filePath) ==
    [category |-> Last(categoryPath),
     name |-> StripExtension(Last(filePath)),
     content |-> [files[filePath] EXCEPT !.text = SliceTo(@, ExampleLimit)]]

\* loadExampleComponents(componentType): every list it can return, as a set
\* of examples. The order of fs.readdirSync is the operating system's, so
\* the first three categories are any three and the first candidate of a
\* category is any of its candidates; a candidate that is a directory
\* cannot be read and is skipped.
LoadExampleComponents(componentType) ==
    IF <<componentType>> \notin dirs THEN {{}}
    ELSE LET categories == CategoryDirs(componentType)
             n == IF Cardinality(categories) < ExampleCategories
                  THEN Cardinality(categories) ELSE ExampleCategories
             firstThree == {chosen \in SUBSET categories : Cardinality(chosen) = n}
             Stocked(chosen) == {c \in chosen : ExampleCandidates(c) # {}}
             Picks(chosen) ==
                 {pick \in [Stocked(chosen) -> UNION {ExampleCandidates(c) : c \in chosen}] :
                     \A c \in Stocked(chosen) : pick[c] \in ExampleCandidates(c)}
         IN  UNION {{ {Example(c, pick[c]) : c \in {d \in Stocked(chosen) : pick[d] \in DOMAIN files}}
                      : pick \in Picks(chosen)}
                    : chosen \in firstThree}

NoCredentialMessage == "ANTHROPIC_API_KEY not configured"

\* a plausible slip: the client constructed without the check of the credential
GenerateValidationWithoutCredentialCheck(body, apiKey) ==
    IF body.componentType = <<>> \/ body.description = <<>>
    THEN [status |-> 400, error |-> "Missing required fields"]
    ELSE IF body.componentType \notin ValidTypes
    THEN [status |-> 400, error |-> "Invalid component type"]
    ELSE [status |-> 0, error |-> "none"]

\* the early returns between the body and the prompt; status 0 when there is none
GenerateValidation(body, apiKey) ==
    IF body.componentType = <<>> \/ body.description = <<>>
    THEN [status |-> 400, error |-> "Missing required fields"]
    ELSE IF body.componentType \notin ValidTypes
    THEN [status |-> 400, error |-> "Invalid component type"]
    ELSE IF ~apiKey
    THEN [status |-> 500, error |-> NoCredentialMessage]
    ELSE [status |-> 0, error |-> "none"]

\* the body is read and validated, the credential checked, the examples
\* loaded and the prompt built
GenerateStart(method, body, apiKey) ==
    /\ gen.pc \in {"idle", "done"}
    /\ apiServed < MaxApiRequests
    /\ apiServed' = apiServed + 1
    /\ LET received == [GenIdle EXCEPT !.http = Received(method)]
           read == [received EXCEPT !.http.bodyRead = TRUE, !.body = body, !.apiKey = apiKey]
           early == GenerateValidation(body, apiKey)
       IN  IF MethodCheck(method, "POST") # 0
           THEN gen' = Respond(received, MethodCheck(method, "POST"))
           ELSE IF ~body.defined
           THEN gen' = Thrown([received EXCEPT !.error = "Failed to generate component"],
                              "generate", 420, 500)
           ELSE IF early.status # 0
           THEN gen' = Respond([read EXCEPT !.error = early.error], early.status)
           ELSE \E examples \in LoadExampleComponents(body.componentType) :
                   LET loaded == [read EXCEPT !.loaded = TRUE, !.examples = examples]
                   IN  gen' = IF body.scrapedContent = "object"
                              THEN Thrown([loaded EXCEPT !.error = "Failed to generate component"],
                                          "generate", 497, 500)
                              ELSE [loaded EXCEPT !.pc = "model"]
    /\ UNCHANGED <<slug, persistVars, scrapeVars, regen, cat>>

\* what anthropic.messages.create settles with
GenerateOutcomes ==
    {"text", "fenced", "noContent", "unauthorized", "forbidden", "overloaded", "unreachable"}

\* await anthropic.messages.create(...) settles; the response is sent
GenerateReply(outcome) ==
    /\ gen.pc = "model"
    /\ LET called == [gen EXCEPT !.modelCalls = @ + 1]
       IN  gen' = CASE outcome = "text" -> Respond([called EXCEPT !.content = "verbatim"], 200)
                    [] outcome = "fenced" -> Respond([called EXCEPT !.content = "unfenced"], 200)
                    [] outcome \in {"unauthorized", "forbidden"} ->
                         Thrown([called EXCEPT !.error = "Anthropic API authentication failed"],
                                "generate", 547, 500)
                    [] outcome = "noContent" ->
                         Thrown([called EXCEPT !.error = "Failed to generate component"],
                                "generate", 556, 500)
                    [] OTHER ->
                         Thrown([called EXCEPT !.error = "Failed to generate component"],
                                "generate", 547, 500)
    /\ UNCHANGED <<slug, persistVars, scrapeVars, regen, cat, apiServed>>

----------------------------------------------------------------------------
(* The regenerate-catalog handler *)

\* the bindings the module of the handler imports
RegenerateImports == {"execSync", "path", "fileURLToPath"}

RegenIdle ==
    [pc |-> "idle", status |-> 0, http |-> NoExchange, scriptExists |-> FALSE,
     subprocesses |-> 0, error |-> "none"]

ExecOutcomes == {"ok", "failed", "timeout"}

\* the handler from its first line to its response: it has no await
Regenerate(method, scriptExists, exec) ==
    /\ regen.pc \in {"idle", "done"}
    /\ apiServed < MaxApiRequests
    /\ apiServed' = apiServed + 1
    /\ regen' = LET received == [RegenIdle EXCEPT !.http = Received(method)]
                    started == [received EXCEPT !.scriptExists = scriptExists]
                    ran == [started EXCEPT !.subprocesses = 1]
                IN  IF MethodCheck(method, "POST") # 0
                    THEN Respond(received, MethodCheck(method, "POST"))
                    ELSE IF "fs" \notin RegenerateImports
                    THEN Thrown([started EXCEPT !.error = "fs is not defined"],
                                "regenerate", 27, 500)
                    ELSE IF ~scriptExists
                    THEN Respond([started EXCEPT !.error = "Catalog generation script not found"],
                                 404)
                    ELSE IF exec = "ok"
                    THEN Respond(ran, 200)
                    ELSE Thrown([ran EXCEPT !.error = exec], "regenerate", 37, 500)
    /\ UNCHANGED <<slug, persistVars, scrapeVars, gen, cat>>

----------------------------------------------------------------------------
(* The categories handler *)

CatIdle == [pc |-> "idle", status |-> 0, http |-> NoExchange, listed |-> FALSE]

\* the handler from its first line to its response: it has no await and only reads
Categories(method, readable) ==
    /\ cat.pc \in {"idle", "done"}
    /\ apiServed < MaxApiRequests
    /\ apiServed' = apiServed + 1
    /\ cat' = LET received == [CatIdle EXCEPT !.http = Received(method)]
              IN  IF MethodCheck(method, "GET") # 0
                  THEN Respond(received, MethodCheck(method, "GET"))
                  ELSE IF ~readable
                  THEN Thrown(received, "categories", 307, 500)
                  ELSE Respond([received EXCEPT !.listed = TRUE], 200)
    /\ UNCHANGED <<slug, persistVars, scrapeVars, gen, regen>>

----------------------------------------------------------------------------
(* Request bodies *)

SDevTeamBang == <<"D","e","v"," ","T","e","a","m","!">>
SDevTeam == <<"D","e","v"," ","T","e","a","m">>
SDevTeamSlug == <<"d","e","v","-","t","e","a","m">>
SMyAgent == <<"M","y"," ","A","g","e","n","t">>
SMyAgentSlug == <<"m","y","-","a","g","e","n","t">>

DescX == <<"x">>
DescY == <<" ", "y">>

ContentDoc == <<"#", " ", "D", "o", "c">>
ContentJson == <<"{", "\"", "a", "\"", ":", "1", "}">>

\* every type, recognised or not, with the four required fields
TypeBodies ==
    {Body(t, SDevTeamBang, SMyAgent, DescX, <<>>) :
        t \in ComponentTypes \cup {TPlugins, TWidgets, TToString}}

\* one required field missing (undefined or the empty string)
IncompleteBodies ==
    {Body(<<>>, SDevTeam, SMyAgent, DescX, <<>>),
     Body(TAgents, <<>>, SMyAgent, DescX, <<>>),
     Body(TAgents, SDevTeam, <<>>, DescX, <<>>),
     Body(TAgents, SDevTeam, SMyAgent, <<>>, <<>>)}

VariedBodies ==
    {Body(t, c, n, d, k) :
        t \in {TAgents, TSkills, TMcps},
        c \in {SDevTeamBang, SDevTeam, SDevTeamSlug, DotDot},
        n \in {SMyAgent, SMyAgentSlug},
        d \in {DescX, DescY},
        k \in {<<>>, ContentDoc, ContentJson}}

Bodies == TypeBodies \cup IncompleteBodies \cup VariedBodies \cup {UndefinedBody}

\* the bodies of two clients racing for one destination
RaceBodies ==
    {Body(TAgents, c, SMyAgent, d, <<>>) : c \in {SDevTeam, SDevTeamSlug}, d \in {DescX, DescY}}
    \cup {Body(TSkills, SDevTeam, SMyAgent, DescX, ContentDoc)}

\* content: JSON with a repeated key, an index key and nesting; a document cut
\* short; whitespace only
ContentNested ==
    <<"{", "\"", "b", "\"", ":", "[", "1", ",", " ", "n", "u", "l", "l", "]", ",",
      "\"", "2", "\"", ":", "\"", "\\", "\"", "\"", ",", "\"", "b", "\"", ":", "{", "}", "}">>
ContentCut == <<"{", "\"", "a", "\"", ":">>
ContentBlank == <<" ", " ">>

\* a description with a quote and a line break, and blanks around it
DescQuoted == <<" ", "a", "\"", "\n", "b", " ">>

\* every recognised type with every kind of content
TemplateBodies ==
    {Body(t, SDevTeam, SMyAgent, d, k) :
        t \in ComponentTypes,
        d \in {DescX, DescQuoted},
        k \in {<<>>, ContentDoc, ContentJson, ContentNested, ContentCut, ContentBlank}}

SBang == <<"!">>
SBlank == <<" ">>

\* fields that pass `!field` and are no slug, or no string
EdgeBodies ==
    {Body(t, c, n, d, k) :
        t \in {TAgents, TMcps, TSkills},
        c \in {SDevTeam, SBlank, SBang},
        n \in {SMyAgent, SBang},
        d \in {DescX, NumberValue},
        k \in {<<>>, NumberValue, ObjectValue}}
    \cup {Body(TAgents, SDevTeam, NumberValue, DescX, <<>>),
          Body(TAgents, ObjectValue, SMyAgent, DescX, <<>>)}

CategoryNames == {<<"a">>, <<"b">>, <<"c">>, <<"d">>}

LongContent == [i \in 1..(ExampleLimit + 1) |-> "a"]

\* artifacts in four categories, a second and long one in the first, and a skill
CatalogBodies ==
    {Body(TAgents, c, SMyAgentSlug, DescX, <<>>) : c \in CategoryNames}
    \cup {Body(TAgents, <<"a">>, <<"x">>, DescX, LongContent),
          Body(TSkills, <<"a">>, SMyAgentSlug, DescX, ContentDoc)}

CatalogGenBodies == {GenBody(t, DescX, "none") : t \in {TAgents, TSkills}}

\* the bodies of generate-component requests
GenBodies ==
    {GenBody(t, d, "none") : t \in {TMcps, TSkills, TPlugins, TToString, <<>>}, d \in {DescX, <<>>}}
    \cup {GenBody(TMcps, DescX, k) : k \in {"text", "object"}}
    \cup {UndefinedGenBody}

----------------------------------------------------------------------------
(* Specifications *)

PersistInit ==
    /\ files = [p \in {} |-> <<>>]
    /\ dirs = {<<>>}
    /\ req = [w \in Workers |-> ReqIdle]
    /\ served = 0
    /\ first201 = [p \in {} |-> <<>>]

ScrapeQuiet == sc = ScIdle /\ scServed = 0

ApiQuiet == gen = GenIdle /\ regen = RegenIdle /\ cat = CatIdle /\ apiServed = 0

Init == slug = SlugIdle /\ PersistInit /\ ScrapeQuiet /\ ApiQuiet

\* one server handling create-component requests one after another
Next ==
    \/ \E method \in Methods, body \in Bodies : CreateStart("w1", method, body, MaxRequests)
    \/ CheckExists("w1")
    \/ EnsureDir("w1")
    \/ WriteFile("w1")

Spec == Init /\ [][Next]_vars

\* server instances sharing the catalog tree, each step one filesystem call
RaceNext ==
    \E w \in Workers :
        \/ \E body \in RaceBodies : CreateStart(w, "POST", body, MaxRaceRequests)
        \/ CheckExists(w)
        \/ EnsureDir(w)
        \/ WriteFile(w)

RaceSpec == Init /\ [][RaceNext]_vars

\* one server, every template with every kind of content
TemplateNext ==
    \/ \E body \in TemplateBodies : CreateStart("w1", "POST", body, MaxTemplateRequests)
    \/ CheckExists("w1")
    \/ EnsureDir("w1")
    \/ WriteFile("w1")

TemplateSpec == Init /\ [][TemplateNext]_vars

\* one server, requests with fields validation lets through
EdgeNext ==
    \/ \E method \in Methods, body \in EdgeBodies : CreateStart("w1", method, body, MaxEdgeRequests)
    \/ CheckExists("w1")
    \/ EnsureDir("w1")
    \/ WriteFile("w1")

EdgeSpec == Init /\ [][EdgeNext]_vars

\* one server process: the requests of two clients on one event loop
LoopNext ==
    \E w \in Workers :
        \/ Scheduled(w) /\ \E body \in RaceBodies : CreateStart(w, "POST", body, MaxLoopRequests)
        \/ Scheduled(w) /\ CheckExists(w)
        \/ Scheduled(w) /\ EnsureDir(w)
        \/ Scheduled(w) /\ WriteFile(w)

LoopSpec == Init /\ [][LoopNext]_vars

SlugSpecInit == SlugInit /\ PersistInit /\ ScrapeQuiet /\ ApiQuiet

SlugNext == ApplySanitizer \/ ReapplySanitizer

SlugSpec == SlugSpecInit /\ [][SlugNext]_vars

\* the scrape-url handler, one request after another
ScrapeNext ==
    \/ \E method \in Methods, defined \in BOOLEAN, url \in UrlInputs,
          useAI \in BOOLEAN, apiKey \in BOOLEAN :
            ScrapeStart(method, defined, url, useAI, apiKey)
    \/ \E up \in UpstreamOutcomes : PrimaryFetch(up)
    \/ \E raw \in RawOutcomes : RawFallback(raw)
    \/ \E outcome \in ProviderOutcomes, quality \in {"high", "low"} : Classify(outcome, quality)

ScrapeSpec == Init /\ [][ScrapeNext]_vars

\* no request is being handled by any of the five handlers
NoneInFlight ==
    /\ req["w1"].pc \in {"idle", "done"}
    /\ sc.pc \in {"idle", "done"}
    /\ gen.pc \in {"idle", "done"}

Accepting == NoneInFlight /\ served + scServed + apiServed < MaxApiRequests

ApiBodies ==
    {UndefinedBody,
     Body(TAgents, SDevTeam, SMyAgent, DescX, <<>>),
     Body(TAgents, DotDot, SMyAgent, DescX, <<>>),
     Body(TSkills, SDevTeam, SMyAgent, DescX, ContentDoc),
     Body(TPlugins, SDevTeam, SMyAgent, DescX, <<>>)}

ApiUrls == {NoUrl, Url(HostExample, <<"docs">>), Url(HostGithub, <<"o", "r", "blob", "main", "README.md">>)}

ApiUpstreams ==
    {Upstream("timeout", 0, 0, FALSE, FALSE, 0, -1, PlainPage),
     Upstream("http", 503, 2048, TRUE, TRUE, 12, -1, PlainPage),
     Upstream("http", 200, 2048, TRUE, TRUE, 12, -1, PlainPage)}

\* the five handlers of the admin API, one request at a time
ApiNext ==
    \/ Accepting /\ \E method \in Methods, body \in ApiBodies :
                        CreateStart("w1", method, body, MaxApiRequests)
    \/ CheckExists("w1")
    \/ EnsureDir("w1")
    \/ WriteFile("w1")
    \/ Accepting /\ \E method \in Methods, defined \in BOOLEAN, url \in ApiUrls,
                        useAI \in BOOLEAN, apiKey \in BOOLEAN :
                        ScrapeStart(method, defined, url, useAI, apiKey)
    \/ \E up \in ApiUpstreams : PrimaryFetch(up)
    \/ \E raw \in RawOutcomes : RawFallback(raw)
    \/ \E outcome \in {"json", "apiError"} : Classify(outcome, "high")
    \/ Accepting /\ \E method \in Methods, body \in GenBodies, apiKey \in BOOLEAN :
                        GenerateStart(method, body, apiKey)
    \/ \E outcome \in GenerateOutcomes : GenerateReply(outcome)
    \/ Accepting /\ \E method \in Methods, scriptExists \in BOOLEAN, exec \in ExecOutcomes :
                        Regenerate(method, scriptExists, exec)
    \/ Accepting /\ \E method \in Methods, readable \in BOOLEAN : Categories(method, readable)

ApiSpec == Init /\ [][ApiNext]_vars

\* every await of a handler settles: the two GETs and the subprocess carry a
\* timeout, and the provider's client gives up after its own
ApiFairSpec == ApiSpec /\ WF_vars(ApiNext)

\* the Artifact Writer and the Synthesizer on one catalog, one request at a time
CatalogNext ==
    \/ /\ NoneInFlight /\ served + apiServed < MaxCatalogRequests
       /\ \E body \in CatalogBodies : CreateStart("w1", "POST", body, MaxCatalogRequests)
    \/ CheckExists("w1")
    \/ EnsureDir("w1")
    \/ WriteFile("w1")
    \/ /\ NoneInFlight /\ served + apiServed < MaxCatalogRequests
       /\ \E body \in CatalogGenBodies : GenerateStart("POST", body, TRUE)
    \/ GenerateReply("text")

CatalogSpec == Init /\ [][CatalogNext]_vars

----------------------------------------------------------------------------
(* Claims about create-component *)

Done(w) == req[w].pc = "done"

\* C1: with requests handled one after another, once a request has been
\* answered 201 for a destination, every later request that resolves to the
\* same destination is answered 409, and the file still holds what the first
\* request wrote.
C1_CreatedOnceThenConflict ==
    /\ \A p \in DOMAIN first201 : p \in DOMAIN files /\ files[p] = first201[p]
    /\ \A w \in Workers : Done(w) /\ req[w].resolved /\ req[w].after201 => req[w].status = 409

C1_Witness ==
    /\ Done("w1") /\ req["w1"].after201 /\ req["w1"].status = 409
    /\ req["w1"].body = Body(TAgents, SDevTeamSlug, SMyAgentSlug, DescY, ContentDoc)
    /\ files[req["w1"].filePath] = FileBody("frontmatter", TAgents, SMyAgentSlug, DescX, <<>>)

\* C2: the existence check is check-then-act: a request that found the
\* destination absent writes it and is answered 201 whatever another request
\* did to the destination meanwhile, so two requests for one destination that
\* both passed the check are both answered 201.
C2_BothPassBothCreated ==
    \A w1, w2 \in Workers :
        (/\ w1 # w2
         /\ Done(w1) /\ Done(w2)
         /\ req[w1].sawAbsent /\ req[w2].sawAbsent
         /\ req[w1].filePath = req[w2].filePath)
        => /\ req[w1].status = 201 /\ req[w2].status = 201
           /\ req[w1].filePath \in DOMAIN files

C2_Witness ==
    /\ Done("w1") /\ Done("w2")
    /\ req["w1"].sawAbsent /\ req["w2"].sawAbsent
    /\ req["w1"].filePath = req["w2"].filePath
    /\ req["w1"].status = 201 /\ req["w2"].status = 201
    /\ req["w1"].body.description # req["w2"].body.description

\* C3: for every request that passes validation, the category and the name
\* used in the destination path are made of [a-z0-9-] only, and category
\* "Dev Team!" with name "My Agent" and type agents gives
\* agents/dev-team/my-agent.md.
C3_CategoryAndNameAreSlugs ==
    \A w \in Workers :
        req[w].resolved
        => /\ IsSlug(req[w].category) /\ IsSlug(req[w].name)
           /\ (req[w].body.type = TAgents /\ req[w].body.category = SDevTeamBang
                   /\ req[w].body.name = SMyAgent)
              => req[w].filePath = <<TAgents, SDevTeamSlug, SMyAgentSlug \o ExtMd>>

\* C4: the sanitizer of the name and the sanitizer of the category are
\* idempotent: applied to their own output they return it unchanged.
C4_SlugIdempotent == slug.pc = "twice" => slug.twice = slug.once

C4_Witness ==
    /\ slug.pc = "twice" /\ slug.which = "category"
    /\ slug.input = <<" ", "B", " ", " ", "!">>
    /\ slug.once = <<"b", "-", "!">>

\* the layout the catalog documents: .md for agents and commands, .json for
\* mcps, settings and hooks, <name>/SKILL.md for skills
DocumentedPath(type, category, name) ==
    Normalize(<<type>> \o Split(category) \o
              (IF type = TSkills THEN <<name, SkillFile>>
               ELSE IF type \in {TAgents, TCommands} THEN <<name \o ExtMd>>
               ELSE <<name \o ExtJson>>))

\* C5: the destination of a request of a recognised type is the location
\* <type>/<category>/<name>/SKILL.md for skills and
\* <type>/<category>/<name><ext> otherwise, computed from the type and the
\* sanitized category and name alone, whatever description and content are.
C5_PathFromTypeCategoryName ==
    \A w \in Workers :
        req[w].resolved /\ req[w].body.type \in ComponentTypes
        => req[w].filePath = DocumentedPath(req[w].body.type, req[w].category, req[w].name)

C5_Witness ==
    /\ Done("w1") /\ req["w1"].status = 201
    /\ req["w1"].body.type = TSkills
    /\ req["w1"].body.content # <<>> /\ req["w1"].body.description = DescY
    /\ req["w1"].filePath = <<TSkills, SDevTeamSlug, SMyAgentSlug, SkillFile>>

\* C6: a request with all four required fields whose type is none of the six
\* component types is answered 400, and nothing is created for it.
C6_UnknownTypeRejected ==
    \A w \in Workers :
        (/\ Done(w)
         /\ req[w].body.type # <<>> /\ req[w].body.category # <<>>
         /\ req[w].body.name # <<>> /\ req[w].body.description # <<>>
         /\ req[w].body.type \notin ComponentTypes)
        => req[w].status = 400 /\ req[w].filePath \notin DOMAIN files

Created(w) == Done(w) /\ req[w].status = 201

\* C24: the file a request of a JSON type (mcps, settings, hooks) creates is
\* well-formed JSON in 2-space indentation: the value of the content when
\* content is given and parses, the default document of the type built from
\* name and description otherwise; the file a request of a text type creates
\* holds a given non-empty content verbatim.
C24_JsonWellFormedTextVerbatim ==
    \A w \in Workers :
        Created(w)
        => LET body == req[w].body
               written == files[req[w].filePath]
               document == JsonParse(written.text)
           IN  /\ body.type \in JsonTypes
                  => /\ ~document.threw
                     /\ written.text = JsonStringify2(document.value)
                     /\ document.value =
                            IF body.content # <<>> /\ ~JsonParse(body.content).threw
                            THEN JsonParse(body.content).value
                            ELSE DefaultConfig(body.type, req[w].name, Trim(body.description))
               /\ body.type \in ComponentTypes \ JsonTypes /\ body.content # <<>>
                  => written = FileBody("verbatim", <<>>, <<>>, <<>>, body.content)

C24_Witness ==
    /\ Created("w1")
    /\ req["w1"].body = Body(THooks, SDevTeam, SMyAgent, DescQuoted, ContentCut)
    /\ files[req["w1"].filePath].kind = "defaultConfig"
    /\ JsonParse(files[req["w1"].filePath].text).value =
           DefaultConfig(THooks, SMyAgentSlug, <<"a", "\"", "\n", "b">>)

\* a location strictly below the directory of the type
UnderTypeDirectory(p, type) ==
    /\ Len(p) >= 2
    /\ p[1] = type
    /\ \A i \in 1..Len(p) : p[i] # DotDot

\* C26: every file a request creates lies below the directory of its type in
\* the catalog tree, whatever '/' and '..' the category and the name hold.
C26_CreatedUnderTypeDirectory ==
    \A w \in Workers :
        Created(w)
        => /\ UnderTypeDirectory(req[w].filePath, req[w].body.type)
           /\ req[w].filePath \in DOMAIN files

\* C27: every request answered 201 has a sanitized name and a sanitized
\* category that are not empty: a name or category that is truthy and
\* sanitizes to the empty string is not persisted.
C27_CreatedHasNameAndCategory ==
    \A w \in Workers :
        Created(w) => req[w].name # <<>> /\ req[w].category # <<>>

\* C28: a request answered with a status other than 201 has created no
\* file and no directory.
C28_FailureLeavesTree ==
    \A w \in Workers :
        Done(w) /\ req[w].http.responses = 1 /\ req[w].status # 201 => req[w].writes = 0

\* C29: in one server process the handler runs from its existence check to
\* its response without a suspension point, so however the requests of
\* several clients arrive, at most one request per destination is answered
\* 201 and every later one 409.
C29_OneCreatedPerDestination ==
    /\ \A w1, w2 \in Workers :
          w1 # w2 /\ Created(w1) /\ Created(w2) => req[w1].filePath # req[w2].filePath
    /\ \A w \in Workers :
          Done(w) /\ req[w].resolved /\ req[w].filePath \in DOMAIN first201
          => \/ req[w].status = 409
             \/ req[w].status = 201 /\ ~req[w].after201
    /\ \A w1, w2 \in Workers : Running(w1) /\ Running(w2) => w1 = w2

C29_Witness ==
    /\ Created("w1")
    /\ Done("w2") /\ req["w2"].status = 409
    /\ req["w1"].filePath = req["w2"].filePath
    /\ req["w1"].body.description # req["w2"].body.description
    /\ served = MaxLoopRequests

----------------------------------------------------------------------------
(* Claims about scrape-url and the Classifier *)

ClassifierFailed ==
    /\ sc.classifier # "notCalled"
    /\ ~sc.apiKey \/ sc.provider \in {"apiError", "unreachable", "prose"}

\* C7: the Classifier never raises: on a missing credential, an unreachable
\* provider, a provider error or a reply that is not JSON it returns an
\* object with confidence 0, validation.dataQuality "low" and the failure
\* message in error.
C7_ClassifierNeverRaises ==
    /\ sc.classifier # "threw"
    /\ ClassifierFailed
       => /\ sc.aiAnalysis.confidence = "0"
          /\ sc.aiAnalysis.dataQuality = "low"
          /\ sc.aiAnalysis.error # "none"

FetchSucceeded == sc.fetches = 1 /\ sc.error = NoError

\* C8: a request with useAI whose fetch and extraction succeeded is answered
\* 200 with the scraped data, whatever the classifier did.
C8_ClassifierFailureKeeps200 ==
    sc.pc = "done" /\ sc.useAI /\ FetchSucceeded
    => sc.status = 200 /\ sc.content.from # "none"

C8_Witness ==
    /\ sc.pc = "done" /\ sc.useAI /\ FetchSucceeded
    /\ sc.classifier = "threw"
    /\ sc.status = 200

\* C9: when the scraped server answers the primary fetch with 404 or 429, the
\* handler answers its caller with that status.
C9_UpstreamStatusPassedThrough ==
    sc.pc = "done" /\ sc.upstream.kind = "http" /\ sc.upstream.status \in {404, 429}
    => sc.status = sc.upstream.status

\* the status the interface documents for each failure of the primary fetch
DocumentedFailureStatus(up) ==
    CASE up.kind \in {"ENOTFOUND", "ECONNREFUSED", "redirects"} -> 400
      [] up.kind \in {"ETIMEDOUT", "timeout"} -> 408
      [] up.kind = "http" /\ up.bytes > MaxContentLength -> 413
      [] OTHER -> 500

Succeeded == sc.pc = "done" /\ sc.http.method = "POST" /\ sc.status = 200

RawShaped ==
    /\ sc.url.wellFormed
    /\ sc.url.hostname = HostRaw
    /\ Len(sc.url.pathname) >= 4

\* the returned content is the fetched body: assigned from it, or both empty
ContentIsBody ==
    \/ sc.content = [from |-> "response", length |-> sc.upstream.bytes]
    \/ sc.upstream.bytes = 0 /\ sc.content.length = 0

\* C11: a scrape of a raw.githubusercontent.com URL /owner/repo/branch/path
\* whose fetched body is a string without <!DOCTYPE returns the body verbatim
\* as content, with isRaw and rawContent true and repository, branch and
\* filePath taken from the path parts.
C11_RawBodyVerbatim ==
    Succeeded /\ RawShaped /\ sc.upstream.isString /\ ~sc.upstream.doctype
    => /\ ContentIsBody
       /\ sc.metadata.isRaw /\ sc.metadata.rawContent
       /\ sc.metadata.repository =
              Some([owner |-> sc.url.pathname[1], name |-> sc.url.pathname[2]])
       /\ sc.metadata.branch = Some(sc.url.pathname[3])
       /\ sc.metadata.filePath = Some(SubSeq(sc.url.pathname, 4, Len(sc.url.pathname)))

\* C12: the raw URL is fetched if and only if the content after extraction is
\* shorter than 500 characters and a raw URL was computed, and at most once
\* per request.
C12_RawFallbackIff ==
    /\ sc.rawFetches <= 1
    /\ sc.pc \in {"classify", "done"} /\ FetchSucceeded
       => (sc.rawFetches = 1
             <=> sc.extractedLength < RawFallbackBelow /\ sc.metadata.rawUrl # None)

C12_Witness ==
    /\ Succeeded /\ sc.rawFetches = 1
    /\ sc.extractedLength = RawFallbackBelow - 1
    /\ sc.metadata.rawUrl =
           Some([owner |-> "o", name |-> "r", branch |-> "main", filePath |-> <<"README.md">>])
    /\ sc.metadata.rawContentFetched

\* C13: the metadata of a successful scrape lists the headings of the content
\* root when it has any, and its first 20 links at most when it has any.
C13_HeadingsAndLinksReturned ==
    Succeeded
    => /\ sc.upstream.page.headings > 0
          => sc.metadata.headings = Some(sc.upstream.page.headings)
       /\ sc.upstream.page.links > 0
          => /\ sc.metadata.links # None
             /\ sc.metadata.links[1] <= MaxLinks

RootShape == sc.metadata.isRepoRoot /\ sc.metadata.repoStructure # None

FileShape ==
    /\ sc.metadata.filePath # None
    /\ sc.metadata.branch # None
    /\ sc.metadata.fileExtension # None

\* C14: the metadata of a successful scrape with source "github" carries the
\* repository and exactly one of the shapes (isRepoRoot with repoStructure)
\* and (filePath with branch and fileExtension).
C14_GithubShapeExactlyOne ==
    Succeeded /\ sc.metadata.source = "github"
    => /\ sc.metadata.repository # None
       /\ RootShape # FileShape

\* C15: a returned repoStructure has at most 50 entries, each with a type of
\* file (exactly when its href contains /blob/) or directory and a path that
\* is not empty.
C15_RepoStructureEntries ==
    sc.metadata.repoStructure # None
    => LET entries == sc.metadata.repoStructure[1]
       IN  /\ Len(entries) <= RepoStructureCap
           /\ \A i \in 1..Len(entries) :
                 /\ entries[i].type \in {"file", "directory"}
                 /\ entries[i].type = "file" <=> HasSegment(entries[i].href, "blob")
                 /\ entries[i].path # <<>>

C15_Witness ==
    /\ Succeeded
    /\ Len(sc.upstream.page.fileLinks) > RepoStructureCap
    /\ sc.metadata.repoStructure # None
    /\ Len(sc.metadata.repoStructure[1]) = RepoStructureCap - 2
    /\ sc.metadata.repoStructure[1][3] =
           [path |-> <<"src">>, type |-> "directory", href |-> HrefDirectory]
    /\ sc.metadata.repoStructure[1][7] =
           [path |-> <<"blob", "x">>, type |-> "file", href |-> HrefNested]

\* C16: no returned code block has content that is empty after trimming, and
\* the language of each is lower-case and never empty ("text" when the
\* element names none).
C16_CodeBlocksNonEmptyLowerCase ==
    \A i \in 1..Len(sc.codeBlocks) :
        /\ Len(Trim(sc.codeBlocks[i].content)) > 0
        /\ sc.codeBlocks[i].language # <<>>
        /\ \A j \in 1..Len(sc.codeBlocks[i].language) :
              sc.codeBlocks[i].language[j] \notin DOMAIN UpperToLower

C16_Witness ==
    /\ Succeeded
    /\ sc.upstream.page = DocPage
    /\ sc.codeBlocks = <<CodeBlock(<<"b","a","t">>, <<"a">>),
                         CodeBlock(<<"m","d">>, <<"b">>),
                         CodeBlock(TText, <<"a", " ", "b">>)>>

\* the properties only the Source Normalizer adds to the metadata
GithubMetadataAbsent ==
    /\ sc.metadata.repository = None /\ sc.metadata.branch = None
    /\ sc.metadata.filePath = None /\ sc.metadata.fileExtension = None
    /\ sc.metadata.rawUrl = None /\ sc.metadata.repoStructure = None
    /\ ~sc.metadata.isRaw /\ ~sc.metadata.rawContent
    /\ ~sc.metadata.isRepoRoot /\ ~sc.metadata.rawContentFetched

\* C21: the metadata of a successful scrape has source "github" if and only
\* if the host of the URL is exactly github.com or exactly
\* raw.githubusercontent.com; for every other host, a host that merely contains
\* one of the two names included, it carries no GitHub-specific property.
C21_GithubOnlyForExactHosts ==
    Succeeded
    => /\ sc.metadata.source = "github" <=> sc.url.hostname \in {HostGithub, HostRaw}
       /\ sc.url.hostname \notin {HostGithub, HostRaw} => GithubMetadataAbsent

BlobShaped ==
    /\ sc.url.wellFormed
    /\ sc.url.hostname = HostGithub
    /\ BlobMatch(sc.url.pathname)

\* C22: a successful scrape of a GitHub blob URL whose page has a
\* .markdown-body element with non-empty text returns that element's text as
\* content (unless the raw URL's body replaced it) and that element's code
\* blocks as codeBlocks.
C22_MarkdownBodyReturned ==
    Succeeded /\ BlobShaped /\ sc.upstream.mdLen > 0 /\ ~sc.metadata.rawContentFetched
    => /\ sc.content = [from |-> "markdown", length |-> sc.upstream.mdLen]
       /\ sc.codeBlocks = MarkdownCodeBlocks(sc.upstream.page.mdCodeBlocks)

RawFallbackDone == sc.pc \in {"classify", "done"} /\ sc.rawFetches = 1

\* C23: the raw-content fallback never fails the request: when the raw GET
\* is rejected, times out, or yields an HTML page or no string, content and
\* metadata stay what extraction made them and the request is answered 200;
\* content is the raw body and rawContentFetched is true only when the GET
\* yielded a string without <!DOCTYPE.
C23_RawFallbackNeverFails ==
    /\ RawFallbackDone /\ sc.rawOutcome \in {"html", "notString", "404", "timeout"}
       => /\ sc.content = ExtractedContent(sc.url, sc.upstream)
          /\ sc.metadata = ExtractedMetadata(sc.url, sc.upstream)
          /\ ~sc.metadata.rawContentFetched
    /\ sc.pc = "done" /\ sc.rawFetches = 1 => sc.status = 200
    /\ sc.metadata.rawContentFetched \/ sc.content.from = "rawUrl"
       => /\ sc.rawOutcome \in {"text", "empty"}
          /\ sc.metadata.rawContentFetched /\ sc.content.from = "rawUrl"

C23_Witness ==
    /\ sc.pc = "done" /\ sc.rawFetches = 1 /\ sc.rawOutcome = "timeout"
    /\ sc.status = 200
    /\ sc.content = [from |-> "main", length |-> RawFallbackBelow - 1]
    /\ ~sc.metadata.rawContentFetched

\* the Extractor, the Source Normalizer and, where it applies, the raw
\* fallback have run on the fetched page
PipelineFinished ==
    /\ FetchSucceeded
    /\ NeedsRawFallback(sc.url, ExtractedContent(sc.url, sc.upstream),
                        ExtractedMetadata(sc.url, sc.upstream))
       => sc.rawFetches = 1

\* C25: a request without useAI never reaches the classifier: no model call,
\* no aiAnalysis, and 200 with or without a credential once fetch and
\* extraction succeeded; with useAI the classifier is called at most once,
\* and only when fetch, extraction, normalization and the raw fallback, if
\* any, are over.
C25_ClassifierOnlyOnRequest ==
    /\ ~sc.useAI
       => /\ sc.pc # "classify" /\ sc.analyses = 0 /\ sc.modelCalls = 0
          /\ sc.classifier = "notCalled" /\ sc.aiAnalysis = NoAnalysis
          /\ sc.pc = "done" /\ FetchSucceeded => sc.status = 200
    /\ sc.analyses <= 1 /\ sc.modelCalls <= sc.analyses
    /\ sc.pc = "classify" \/ sc.analyses = 1 => sc.useAI /\ PipelineFinished
    /\ sc.useAI /\ sc.pc = "done" /\ FetchSucceeded => sc.analyses = 1

C25_Witness ==
    /\ sc.pc = "done" /\ sc.useAI /\ sc.analyses = 1 /\ sc.modelCalls = 1
    /\ sc.rawFetches = 1 /\ sc.metadata.rawContentFetched
    /\ sc.aiAnalysis.kind = "analysis"
    /\ sc.status = 200

----------------------------------------------------------------------------
(* Claims about the generate-component and regenerate-catalog handlers and
   about what the five handlers share *)

\* C17: a generate-component request with a valid componentType and a
\* description, made while no AI credential is configured, is answered 500
\* with an error naming the credential, and no model call is issued for it.
C17_GenerateWithoutCredential ==
    /\ gen.pc = "model" => gen.apiKey
    /\ (/\ gen.pc = "done" /\ gen.http.bodyRead
        /\ gen.body.componentType \in ComponentTypes
        /\ gen.body.description # <<>>
        /\ ~gen.apiKey)
       => /\ gen.status = 500
          /\ gen.error = "ANTHROPIC_API_KEY not configured"
          /\ gen.modelCalls = 0

C17_Witness ==
    /\ gen.pc = "done" /\ gen.http.method = "POST"
    /\ gen.body = GenBody(TMcps, DescX, "none")
    /\ ~gen.apiKey
    /\ gen.status = 500 /\ gen.modelCalls = 0

\* C18: a POST to regenerate-catalog while the generation script is absent
\* is answered 404, and no subprocess is started.
C18_MissingScriptAnswered404 ==
    regen.pc = "done" /\ regen.http.method = "POST" /\ ~regen.scriptExists
    => regen.status = 404 /\ regen.subprocesses = 0

\* the transport-level fields of the request of each of the five handlers
Exchanges ==
    [create |-> req["w1"].http, scrape |-> sc.http, generate |-> gen.http,
     regenerate |-> regen.http, categories |-> cat.http]

\* C19: each of the five handlers answers an OPTIONS request with 200 and
\* Access-Control-Allow-Origin: *, without reading the body and without any
\* fetch, model call, filesystem write or subprocess.
C19_OptionsAnswered200 ==
    /\ \A h \in DOMAIN Exchanges :
          Exchanges[h].method = "OPTIONS"
          => Exchanges[h].allowOrigin = "*" /\ ~Exchanges[h].bodyRead /\ Exchanges[h].responses = 1
    /\ req["w1"].http.method = "OPTIONS"
       => req["w1"].pc = "done" /\ req["w1"].status = 200 /\ req["w1"].writes = 0
    /\ sc.http.method = "OPTIONS"
       => /\ sc.pc = "done" /\ sc.status = 200
          /\ sc.fetches = 0 /\ sc.rawFetches = 0 /\ sc.modelCalls = 0
    /\ gen.http.method = "OPTIONS"
       => gen.pc = "done" /\ gen.status = 200 /\ gen.modelCalls = 0
    /\ regen.http.method = "OPTIONS"
       => regen.pc = "done" /\ regen.status = 200 /\ regen.subprocesses = 0
    /\ cat.http.method = "OPTIONS"
       => cat.pc = "done" /\ cat.status = 200 /\ ~cat.listed

C19_Witness ==
    /\ regen.http.method = "OPTIONS" /\ regen.status = 200
    /\ cat.http.method = "OPTIONS" /\ cat.status = 200
    /\ regen.http.allowOrigin = "*" /\ cat.http.allowOrigin = "*"

\* where each of the five handlers stands
Positions ==
    [create |-> req["w1"].pc, scrape |-> sc.pc, generate |-> gen.pc,
     regenerate |-> regen.pc, categories |-> cat.pc]

\* C20: every request to any of the five handlers ends with exactly one
\* response: no exception raised after the method check leaves the handler,
\* and no request is answered twice.
OneResponseEach ==
    \A h \in DOMAIN Exchanges :
        /\ ~Exchanges[h].escaped
        /\ Positions[h] = "done" => Exchanges[h].responses = 1
        /\ Positions[h] # "done" => Exchanges[h].responses = 0

C20_ExactlyOneResponse ==
    /\ []OneResponseEach
    /\ \A h \in {"create", "scrape", "generate"} :
          (Positions[h] \notin {"idle", "done"}) ~> (Positions[h] = "done")

C20_Witness ==
    /\ req["w1"].pc = "done" /\ req["w1"].http.method = "POST"
    /\ ~req["w1"].http.bodyRead
    /\ req["w1"].status = 500 /\ req["w1"].http.responses = 1
    /\ gen.pc = "done" /\ gen.error = "Anthropic API authentication failed"
    /\ gen.status = 500 /\ gen.http.responses = 1

\* the catalog holds an artifact the Artifact Writer persisted for the type
Persisted(componentType) ==
    \E p \in DOMAIN first201 : Len(p) >= 3 /\ p[1] = componentType

\* C30: when the catalog holds at least one persisted artifact of the type
\* asked for, skills included, the Synthesizer loads at least one and at
\* most three examples, at most one per category, each cut to 2,000
\* characters.
C30_PersistedArtifactLoaded ==
    gen.pc = "model" /\ Persisted(gen.body.componentType)
    => /\ Cardinality(gen.examples) >= 1
       /\ Cardinality(gen.examples) <= ExampleCategories
       /\ \A e1, e2 \in gen.examples : e1.category = e2.category => e1 = e2
       /\ \A e \in gen.examples : Len(e.content.text) <= ExampleLimit

=============================================================================
